---------------------------- MODULE Spec2Model ----------------------------
(***************************************************************************)
(* Model of the account decommissioning agents of infra-decom-logs:        *)
(*   - the tagging agent's preservation classifier                         *)
(*     (agents/tagging/tagging_agent.py),                                  *)
(*   - the account sweeper (agents/sweeper-account/account_sweeper_agent), *)
(*   - the closure agents and the two closure orchestrators                *)
(*     (agents/closure/*.py).                                              *)
(* Each part has its own specification over the module's variables; the    *)
(* variables of the other parts stay at their idle values.                 *)
(***************************************************************************)
EXTENDS Integers, Sequences, FiniteSets, TLC

VARIABLES
    \* ---- classifier (tagging_agent.should_preserve_resource)
    cl_pc,            \* "idle", "input" or "done"
    resource_name,    \* the name given to the classifier (a string of Text)
    resource_type,    \* the type given to the classifier (segments split on "::")
    decision,         \* the returned tuple (preserve, reason)
    \* ---- account sweeper (account_sweeper_agent.AccountSweeperAgent)
    sw_pc,            \* "idle", "construct", "start", "run", "done", "skipped", or
                      \* "error" (an exception left the constructor or sweep_account)
    sw_i,             \* index in the sweep order of the next resource
    dry_run,          \* self.dry_run
    profile_name,     \* self.profile_name
    inventory,        \* self.inventory
    deletion_log,     \* self.deletion_log
    sweep_order,      \* the resources in the order sweep_account reaches them
    calls,            \* provider calls issued so far, in order
    tag_answer,       \* what the tag lookup answered, per processed resource
    delete_answer,    \* what the live calls answered, per processed resource
    journal,          \* the saved results of the run before this one, if any
    \* ---- tagging agent (tagging_agent.AWSTaggingAgent) and the account's tags
    tg_pc,            \* "idle", "run" or "done"
    tg_i,             \* index in the tagging order of the next resource
    tagging_results,  \* self.tagging_results
    cloud_tags,       \* the tags the account holds, per resource the model tracks
    \* ---- account closure (agents/closure)
    orchestrator,     \* "account" (AccountClosureOrchestrator), "complete"
                      \* (ClosureOrchestrator) or "none"
    orch_pc,          \* the orchestrator's position
    proc,             \* per agent, its child process: "none", "running", "exit_0",
                      \* "exit_1", "killed", or "error" when it could not be launched
    phases,           \* per agent, the status run_agent recorded, "none" before
    barrier_elapsed,  \* the orchestrator's time.sleep between phases has returned
    nuke_pending,     \* the regions whose nuke_region task has not run yet
    attempt,          \* per resource: "pending", or how the delete call issued
                      \* for it ended: "destroyed" (it returned; the resource is
                      \* appended to the destroyed list), "failed" (it raised;
                      \* appended to the failed list) or "unrecorded" (it raised
                      \* and nothing was appended)
    storage_pc,       \* position of destroy_all_storage
    storage_tasks,    \* the pool tasks of destroy_all_storage not yet run
    compute_pc,       \* position of destroy_all_compute
    compute_r,        \* index in all_regions of the region it processes
    infra_pc,         \* position of destroy_all_infrastructure
    infra_r,          \* index in all_regions of the region it processes
    infra_slept,      \* its time.sleep(30) has returned
    stacks_visited,   \* the regions destroy_cloudformation_stacks has returned for
    \* ---- the order of a list of stacks (stack_priority of both agents)
    so_stacks,        \* the stacks of a region as listed
    so_done,          \* the agents whose sort has run: "sweeper", "infrastructure"
    so_sweeper,       \* the list after the sweeper's stacks.sort(key=stack_priority)
    so_infra,         \* the infrastructure agent's sorted(stacks, key=stack_priority)
    \* ---- TargetedS3BucketDestroyer
    tb_pc,            \* "idle", "loop" (inside destroy_target_buckets), "done"
    tb_i,             \* index of the next bucket of target_buckets
    results,          \* self.results: buckets_processed and summary
    tb_calls,         \* the s3 calls issued so far, each with the provider's answer
    \* ---- the thread pool of StorageDestructionAgent.destroy_all_storage
    sp_pc,            \* "idle", "start", "pool" (inside the with block), "done"
    sp_task,          \* per submitted task, the state of its thread
    sp_log,           \* self.destruction_log, shared by the threads
    \* ---- the end of ClosureOrchestrator.run_comprehensive_nuke
    verification,     \* what verify_account_empty did: status "none" before it has
                      \* run, "recorded" with the counts it stored in the log,
                      \* "error" when its except clause was reached
    log_saved,        \* save_orchestration_log has written the file
    \* ---- the end of AccountClosureOrchestrator.orchestrate_account_closure
    closure_log,      \* self.closure_log: summary.completion_status, and whether
                      \* the file has been written
    \* ---- the counts AccountClosureOrchestrator reads from the agents' output
    pa_pc,            \* 0 idle; k: run_agent number k is next; then summary, end
    destruction_logs, \* per agent, its destruction_log lists and what it printed
    phase_results,    \* closure_log['phases']: status and the parsed counts
    closure_totals    \* closure_log['summary']: the two totals

classVars == <<cl_pc, resource_name, resource_type, decision>>
sweepVars == <<sw_pc, sw_i, dry_run, profile_name, inventory, deletion_log,
               sweep_order, calls, tag_answer, delete_answer, journal>>
tagVars == <<tg_pc, tg_i, tagging_results, cloud_tags>>

(***************************************************************************)
(* Strings.  A Python string is a sequence of one-character strings, so    *)
(* that lower() and the substring test `in` are computed, not assumed.     *)
(***************************************************************************)
UpperCase == <<"A","B","C","D","E","F","G","H","I","J","K","L","M",
               "N","O","P","Q","R","S","T","U","V","W","X","Y","Z">>
LowerCase == <<"a","b","c","d","e","f","g","h","i","j","k","l","m",
               "n","o","p","q","r","s","t","u","v","w","x","y","z">>

\* str.lower() on one character
LowerChar(c) ==
    IF \E i \in 1..Len(UpperCase) : UpperCase[i] = c
    THEN LowerCase[CHOOSE i \in 1..Len(UpperCase) : UpperCase[i] = c]
    ELSE c

\* str.lower()
Lower(s) == [i \in 1..Len(s) |-> LowerChar(s[i])]

\* Python's `sub in s`
Contains(sub, s) ==
    \E k \in 0..(Len(s) - Len(sub)) :
        \A i \in 1..Len(sub) : s[k + i] = sub[i]

\* str.startswith
StartsWith(s, prefix) ==
    /\ Len(prefix) <= Len(s)
    /\ \A i \in 1..Len(prefix) : s[i] = prefix[i]

\* The strings the model uses as resource names, by their characters.
Text ==
    ("my-app" :> <<"m","y","-","a","p","p">>) @@
    ("cdk-app" :> <<"c","d","k","-","a","p","p">>) @@
    ("AWSControlTower-BP" :>
        <<"A","W","S","C","o","n","t","r","o","l","T","o","w","e","r","-","B","P">>) @@
    ("StackSet-AWS-Landing-Zone" :>
        <<"S","t","a","c","k","S","e","t","-","A","W","S","-","L","a","n","d","i","n","g",
          "-","Z","o","n","e">>) @@
    ("Xmodulairhr.comX" :>
        <<"X","m","o","d","u","l","a","i","r","h","r",".","c","o","m","X">>) @@
    ("savings-plan" :> <<"s","a","v","i","n","g","s","-","p","l","a","n">>) @@
    ("zone.example.org" :>
        <<"z","o","n","e",".","e","x","a","m","p","l","e",".","o","r","g">>) @@
    ("aws-controltower-logs" :>
        <<"a","w","s","-","c","o","n","t","r","o","l","t","o","w","e","r","-","l","o","g","s">>) @@
    ("StackSet-Baseline" :>
        <<"S","t","a","c","k","S","e","t","-","B","a","s","e","l","i","n","e">>) @@
    ("OrganizationAccountAccessRole" :>
        <<"O","r","g","a","n","i","z","a","t","i","o","n","A","c","c","o","u","n","t",
          "A","c","c","e","s","s","R","o","l","e">>)

(***************************************************************************)
(* tagging_agent.py: the preservation classifier                           *)
(***************************************************************************)
PRESERVE_TAG_KEY == "decom:preserve"
PRESERVE_TAG_VALUE == "true"
PRESERVE_REASON_KEY == "decom:reason"

\* PRESERVE_PATTERNS, in the dict's insertion order
PRESERVE_PATTERNS == <<
    [pattern |-> <<"C","o","n","t","r","o","l","T","o","w","e","r">>,
     reason |-> "AWS Control Tower landing zone resource"],
    [pattern |-> <<"A","W","S","-","L","a","n","d","i","n","g","-","Z","o","n","e">>,
     reason |-> "AWS Landing Zone resource"],
    [pattern |-> <<"A","W","S","C","o","n","t","r","o","l","T","o","w","e","r">>,
     reason |-> "Control Tower managed resource"],
    [pattern |-> <<"a","w","s","-","c","o","n","t","r","o","l","t","o","w","e","r">>,
     reason |-> "Control Tower managed resource"],
    [pattern |-> <<"O","r","g","a","n","i","z","a","t","i","o","n","A","c","c","o","u",
                   "n","t","A","c","c","e","s","s","R","o","l","e">>,
     reason |-> "Organization management role"],
    [pattern |-> <<"A","W","S","R","e","s","e","r","v","e","d","S","S","O">>,
     reason |-> "AWS SSO managed resource"],
    [pattern |-> <<"A","W","S","-","S","y","s","t","e","m","s","M","a","n","a","g","e","r">>,
     reason |-> "AWS Systems Manager resource"],
    [pattern |-> <<"a","w","s","-","s","e","r","v","i","c","e","-","r","o","l","e">>,
     reason |-> "AWS service-linked role"],
    [pattern |-> <<"m","o","d","u","l","a","i","r","h","r",".","c","o","m">>,
     reason |-> "Company domain resource"],
    [pattern |-> <<"M","o","d","u","l","a","i","r","H","R">>,
     reason |-> "Company resource"],
    [pattern |-> <<"a","w","s","-","b","u","d","g","e","t","s">>,
     reason |-> "AWS Budgets resource"],
    [pattern |-> <<"s","a","v","i","n","g","s","-","p","l","a","n">>,
     reason |-> "Savings Plan resource"] >>

\* `pattern.lower() in resource_name.lower()` for the i-th pattern
PatternMatches(i, name) ==
    Contains(Lower(PRESERVE_PATTERNS[i].pattern), Lower(Text[name]))

MatchingPatterns(name) ==
    {i \in 1..Len(PRESERVE_PATTERNS) : PatternMatches(i, name)}

\* the first pattern of the loop `for pattern, reason in PRESERVE_PATTERNS.items()`
FirstPattern(name) ==
    CHOOSE i \in MatchingPatterns(name) : \A j \in MatchingPatterns(name) : i <= j

\* inventory_agent.py: PRESERVE_RESOURCE_TYPES
PRESERVE_RESOURCE_TYPES == {
    <<"AWS","Organizations","Account">>,
    <<"AWS","Organizations","OrganizationalUnit">>,
    <<"AWS","Organizations","Root">>,
    <<"AWS","ControlTower","LandingZone">>,
    <<"AWS","IAM","Role">>,
    <<"AWS","IAM","User">>,
    <<"AWS","IAM","Policy">>,
    <<"AWS","IAM","ManagedPolicy">>,
    <<"AWS","Route53","HostedZone">>,
    <<"AWS","Route53","Domain">>,
    <<"AWS","Budgets","Budget">>,
    <<"AWS","Support","SupportPlan">>,
    <<"AWS","SavingsPlans","SavingsPlan">> }

\* the `if resource_type:` branch of should_preserve_resource; a type is its
\* segments between "::", so startswith('AWS::X::') is "first two segments are
\* AWS, X and a third one follows"
TypeRule(name, type) ==
    IF type \in {<<"AWS","IAM","Role">>, <<"AWS","IAM","User">>, <<"AWS","IAM","Policy">>}
    THEN [preserve |-> TRUE, reason |-> "IAM resource - preserve all"]
    ELSE IF Len(type) >= 3 /\ StartsWith(type, <<"AWS","Organizations">>)
    THEN [preserve |-> TRUE, reason |-> "Organizations resource"]
    ELSE IF Len(type) >= 3 /\ StartsWith(type, <<"AWS","ControlTower">>)
    THEN [preserve |-> TRUE, reason |-> "Control Tower resource"]
    ELSE IF /\ Len(type) >= 3 /\ StartsWith(type, <<"AWS","Route53">>)
            /\ Contains(<<"m","o","d","u","l","a","i","r","h","r",".","c","o","m">>,
                        Lower(Text[name]))
    THEN [preserve |-> TRUE, reason |-> "Company domain resource"]
    ELSE [preserve |-> FALSE, reason |-> ""]

\* a variant that consults the type catalogue before the name patterns
should_preserve_resource_TypeFirst(name, type) ==
    IF type # <<>> /\ TypeRule(name, type).preserve
    THEN TypeRule(name, type)
    ELSE IF MatchingPatterns(name) # {}
    THEN [preserve |-> TRUE, reason |-> PRESERVE_PATTERNS[FirstPattern(name)].reason]
    ELSE [preserve |-> FALSE, reason |-> ""]

\* a variant without the final 'return False, ""': it returns None
should_preserve_resource_NoDefault(name, type) ==
    IF MatchingPatterns(name) # {}
    THEN [preserve |-> TRUE, reason |-> PRESERVE_PATTERNS[FirstPattern(name)].reason]
    ELSE IF type # <<>> /\ TypeRule(name, type).preserve
    THEN TypeRule(name, type)
    ELSE [preserve |-> FALSE, reason |-> "(None)"]

\* AWSTaggingAgent.should_preserve_resource; resource_type None is <<>>
should_preserve_resource(name, type) ==
    IF MatchingPatterns(name) # {}
    THEN [preserve |-> TRUE, reason |-> PRESERVE_PATTERNS[FirstPattern(name)].reason]
    ELSE IF type # <<>>
    THEN TypeRule(name, type)
    ELSE [preserve |-> FALSE, reason |-> ""]

(***************************************************************************)
(* account_sweeper_agent.py: the account sweeper                           *)
(***************************************************************************)
RESTRICTED_ACCOUNTS == {"LogArchive-Admin", "Audit-Admin"}

PreserveTag == [Key |-> PRESERVE_TAG_KEY, Value |-> PRESERVE_TAG_VALUE]

\* The tag lists a lookup may return.
TagSets == {
    <<>>,
    <<PreserveTag>>,
    <<[Key |-> "Name", Value |-> "true"], PreserveTag>>,
    <<[Key |-> "Name", Value |-> "true"], [Key |-> PRESERVE_TAG_KEY, Value |-> "false"]>> }

\* a variant that looks at the first tag only
is_resource_preserved_FirstTagOnly(resource_id, tags) ==
    /\ tags # <<>>
    /\ tags[1].Key = PRESERVE_TAG_KEY /\ tags[1].Value = PRESERVE_TAG_VALUE

\* AccountSweeperAgent.is_resource_preserved
is_resource_preserved(resource_id, tags) ==
    IF tags = <<>> THEN FALSE
    ELSE \E i \in 1..Len(tags) :
            tags[i].Key = PRESERVE_TAG_KEY /\ tags[i].Value = PRESERVE_TAG_VALUE

\* AccountSweeperAgent.get_resource_tags: `answer` is what the provider's tag
\* call does, status "error" when it raises and "ok" with the tag list otherwise
get_resource_tags(answer) ==
    IF answer.status = "error" THEN <<PreserveTag>> ELSE answer.tags

\* the three tiers of delete_cloudformation_stacks.stack_priority
sweeper_stack_priority(name) ==
    IF \/ Contains(<<"c","o","n","t","r","o","l","t","o","w","e","r">>, Lower(Text[name]))
       \/ Contains(<<"l","a","n","d","i","n","g","-","z","o","n","e">>, Lower(Text[name]))
    THEN 2
    ELSE IF Contains(<<"c","d","k","-">>, Lower(Text[name])) THEN 1
    ELSE 0

\* the elements of seq whose key is p, in their order; keys[i] is the key of seq[i]
Tier(seq, keys, p) ==
    LET F[i \in 0..Len(seq)] ==
            IF i = 0 THEN <<>>
            ELSE IF keys[i] = p THEN Append(F[i - 1], seq[i]) ELSE F[i - 1]
    IN F[Len(seq)]

\* stacks.sort(key=stack_priority): a stable sort on three keys
SortStacks(stacks) ==
    LET keys == [i \in 1..Len(stacks) |-> sweeper_stack_priority(stacks[i])]
    IN Tier(stacks, keys, 0) \o Tier(stacks, keys, 1) \o Tier(stacks, keys, 2)

\* the list under inventory['regions'][region]['resources'][key]['resources'],
\* empty when the region or the key is missing
Listed(inv, region, key) ==
    IF region \in DOMAIN inv.resources /\ key \in DOMAIN inv.resources[region]
    THEN inv.resources[region][key]
    ELSE <<>>

Items(type, region, ids) == [i \in 1..Len(ids) |-> [type |-> type, id |-> ids[i], region |-> region]]

\* the loop body of step 1 of sweep_account for one region
ComputeItems(inv, region) ==
    Items("lambda_function", region, Listed(inv, region, "lambda_functions"))
        \o Items("ec2_instance", region, Listed(inv, region, "ec2_instances"))
        \o Items("rds_instance", region, Listed(inv, region, "rds_instances"))

\* a variant that finishes a region, its buckets and its stacks included,
\* before it goes to the next region
SweepOrder_RegionByRegion(inv) ==
    LET R[i \in 0..Len(inv.regions)] ==
            IF i = 0 THEN <<>>
            ELSE R[i - 1] \o ComputeItems(inv, inv.regions[i])
                 \o (IF inv.regions[i] = "us-east-1"
                     THEN Items("s3_bucket", "us-east-1",
                                Listed(inv, "us-east-1", "s3_buckets"))
                     ELSE <<>>)
                 \o Items("cloudformation_stack", inv.regions[i],
                          SortStacks(Listed(inv, inv.regions[i], "cloudformation_stacks")))
    IN R[Len(inv.regions)]

\* the resources in the order sweep_account reaches them: compute of every
\* region, the buckets listed under us-east-1, the sorted stacks of every region
SweepOrder(inv) ==
    LET C[i \in 0..Len(inv.regions)] ==
            IF i = 0 THEN <<>> ELSE C[i - 1] \o ComputeItems(inv, inv.regions[i])
        S[i \in 0..Len(inv.regions)] ==
            IF i = 0 THEN <<>>
            ELSE S[i - 1] \o Items("cloudformation_stack", inv.regions[i],
                                   SortStacks(Listed(inv, inv.regions[i],
                                                     "cloudformation_stacks")))
    IN C[Len(inv.regions)]
        \o Items("s3_bucket", "us-east-1", Listed(inv, "us-east-1", "s3_buckets"))
        \o S[Len(inv.regions)]

\* Facts of the account the sweeper runs against: the resources with deletion
\* or termination protection enabled, and the buckets that hold objects.
CloudProtected == {"db-1", "i-1", "AWSControlTower-BP", "my-app"}
CloudNonEmpty == {"my-app", "aws-controltower-logs"}

\* the provider call whose answer carries the tags, per resource type
TagCall == [lambda_function |-> "list_tags", ec2_instance |-> "describe_tags",
            rds_instance |-> "list_tags_for_resource", s3_bucket |-> "get_bucket_tagging",
            cloudformation_stack |-> "describe_stacks"]

\* the lookup a handler makes before it asks for the tags (the ARN)
ArnCall(type) ==
    IF type = "lambda_function" THEN <<"get_function">>
    ELSE IF type = "rds_instance" THEN <<"describe_db_instances">>
    ELSE <<>>

\* the calls of the live branch of a handler, in order; the last one but the
\* waiter is the delete call
DestroyCalls(item) ==
    IF item.type = "lambda_function" THEN <<"delete_function">>
    ELSE IF item.type = "ec2_instance" THEN
        <<"describe_instance_attribute">>
            \o (IF item.id \in CloudProtected THEN <<"modify_instance_attribute">> ELSE <<>>)
            \o <<"terminate_instances">>
    ELSE IF item.type = "rds_instance" THEN
        (IF item.id \in CloudProtected THEN <<"modify_db_instance">> ELSE <<>>)
            \o <<"delete_db_instance">>
    ELSE IF item.type = "s3_bucket" THEN
        <<"list_object_versions">>
            \o (IF item.id \in CloudNonEmpty THEN <<"delete_objects">> ELSE <<>>)
            \o <<"delete_bucket">>
    ELSE
        <<"describe_stacks">>
            \o (IF item.id \in CloudProtected THEN <<"update_termination_protection">>
                ELSE <<>>)
            \o <<"delete_stack">>

\* calls that change the account
DestroyOps == {"delete_function", "modify_instance_attribute", "terminate_instances",
               "modify_db_instance", "delete_db_instance", "delete_objects",
               "delete_bucket", "update_termination_protection", "delete_stack"}

CallsOf(item, ops) ==
    [i \in 1..Len(ops) |-> [op |-> ops[i], type |-> item.type, id |-> item.id,
                            region |-> item.region]]

EmptyLog == [successful |-> <<>>, failed |-> <<>>, skipped_preserved |-> <<>>,
             total_deleted |-> 0, total_failed |-> 0, total_preserved |-> 0,
             skip_reason |-> "", end_time |-> FALSE, saved |-> FALSE]

LogPreserved(log, item) ==
    [log EXCEPT !.skipped_preserved = Append(@, item), !.total_preserved = @ + 1]
\* a deletion that is counted but not listed
LogSuccessful_CountOnly(log, item) == [log EXCEPT !.total_deleted = @ + 1]
LogSuccessful(log, item) ==
    [log EXCEPT !.successful = Append(@, item), !.total_deleted = @ + 1]
\* a failure that is counted but not listed
LogFailed_CountOnly(log, item) == [log EXCEPT !.total_failed = @ + 1]
LogFailed(log, item) ==
    [log EXCEPT !.failed = Append(@, item), !.total_failed = @ + 1]

\* what the account answers to a tag lookup: an error, or a tag list
TagError == [status |-> "error", tags |-> <<>>]

\* The record kept of an answer: "error" when the tag call raised, "preserve"
\* when the returned tags hold the pair decom:preserve=true, "other" when they
\* do not; "no_arn" when the tag call was never made because the call before it
\* raised.
AnswerKind(answer) ==
    IF answer.status = "error" THEN "error"
    ELSE IF PreserveTag \in {answer.tags[i] : i \in 1..Len(answer.tags)} THEN "preserve"
    ELSE "other"

\* the calls of the else branch of a handler if it tested no flag
DeleteBranchCalls_AlwaysLive(item, fail_at, flag) ==
    IF fail_at = 0
    THEN CallsOf(item, DestroyCalls(item))
            \o (IF item.type = "cloudformation_stack"
                THEN CallsOf(item, <<"wait_stack_delete_complete">>)
                ELSE <<>>)
    ELSE CallsOf(item, SubSeq(DestroyCalls(item), 1, fail_at))

\* the calls a handler issues for a resource that is not preserved: none when
\* self.dry_run is set, else the live calls up to the one that raises
DeleteBranchCalls(item, fail_at, flag) ==
    IF flag THEN <<>>
    ELSE IF fail_at = 0
    THEN CallsOf(item, DestroyCalls(item))
            \o (IF item.type = "cloudformation_stack"
                THEN CallsOf(item, <<"wait_stack_delete_complete">>)
                ELSE <<>>)
    ELSE CallsOf(item, SubSeq(DestroyCalls(item), 1, fail_at))

\* One iteration of a handler's loop (delete_lambda_functions, delete_ec2_resources,
\* delete_rds_resources, delete_s3_buckets, delete_cloudformation_stacks) on `item`.
\*   arn_ok  whether the lookup before the tag call succeeds
\*   answer  what the tag call does (one of Answers)
\*   fail_at the live call that raises (0: none raises)
\*   kind    how the live calls end, one of LiveAnswers(item, fail_at)
SweepItem(item, arn_ok, answer, fail_at, kind) ==
    LET arn == ArnCall(item.type)
        tags == get_resource_tags(answer)
        ops == DestroyCalls(item)
        lookups == CallsOf(item, arn \o <<TagCall[item.type]>>)
    IN  /\ sw_i' = sw_i + 1
        /\ IF arn # <<>> /\ ~arn_ok
           THEN /\ calls' = calls \o CallsOf(item, arn)
                /\ deletion_log' = LogFailed(deletion_log, item)
                /\ tag_answer' = Append(tag_answer, "no_arn")
                /\ delete_answer' = Append(delete_answer, "none")
           ELSE /\ tag_answer' = Append(tag_answer, AnswerKind(answer))
                /\ IF is_resource_preserved(item.id, tags)
                   THEN /\ calls' = calls \o lookups
                        /\ deletion_log' = LogPreserved(deletion_log, item)
                        /\ delete_answer' = Append(delete_answer, "none")
                   ELSE IF dry_run
                   THEN /\ calls' = calls \o lookups \o DeleteBranchCalls(item, fail_at, dry_run)
                        /\ deletion_log' = LogSuccessful(deletion_log, item)
                        /\ delete_answer' = Append(delete_answer, "none")
                   ELSE IF fail_at = 0
                   THEN /\ calls' = calls \o lookups \o DeleteBranchCalls(item, fail_at, dry_run)
                        /\ deletion_log' = LogSuccessful(deletion_log, item)
                        /\ delete_answer' = Append(delete_answer, kind)
                   ELSE /\ calls' = calls \o lookups \o DeleteBranchCalls(item, fail_at, dry_run)
                        /\ deletion_log' = LogFailed(deletion_log, item)
                        /\ delete_answer' = Append(delete_answer, kind)

\* how the live calls for a resource can end: every call returns ("ok"; for a
\* stack the waiter may also give up or raise while the stack is still there,
\* "wait_timeout"), or call fail_at raises ("raised"; for a stack the record
\* tells a transient error, such as throttling, from a terminal one)
LiveAnswers(item, fail_at) ==
    IF item.type = "cloudformation_stack"
    THEN (IF fail_at > 0 THEN {"transient", "terminal"} ELSE {"ok", "wait_timeout"})
    ELSE (IF fail_at > 0 THEN {"raised"} ELSE {"ok"})

\* no run before this one
NoJournal ==
    [runs |-> 0, log |-> EmptyLog, dry_run |-> FALSE, ncalls |-> 0, gone |-> {},
     tags |-> <<>>]

\* the choices of the account for one iteration: any answer for a resource
\* whose tags the model does not track, an error or the tags it holds otherwise
Answers == {TagError} \cup {[status |-> "ok", tags |-> t] : t \in TagSets}

\* A resource that the run before deleted has no tags to fetch; a resource
\* whose tag lookup was answered in the run before is answered the same way
\* again (the account is the same).
AnswersFor(item) ==
    LET any == IF item.id \in DOMAIN cloud_tags
               THEN {TagError, [status |-> "ok", tags |-> cloud_tags[item.id]]}
               ELSE Answers
    IN IF item \in journal.gone THEN {TagError}
       ELSE IF sw_i <= Len(journal.tags) /\ journal.tags[sw_i] # "no_arn"
       THEN {a \in any : AnswerKind(a) = journal.tags[sw_i]}
       ELSE any

\* whether the lookup of a resource's ARN returns: it raises for a resource
\* that the run before deleted, and answers a resource that is still there as
\* it did in the run before
ArnAnswers(item) ==
    IF item \in journal.gone THEN {FALSE}
    ELSE IF sw_i <= Len(journal.tags) THEN {journal.tags[sw_i] # "no_arn"}
    ELSE BOOLEAN

\* a test that skips no account
SkipsAccount_Never(flag, profile) == FALSE

\* the test of sweep_account that skips an account: live mode and a profile of
\* RESTRICTED_ACCOUNTS
SkipsAccount(flag, profile) == ~flag /\ profile \in RESTRICTED_ACCOUNTS

\* sweep_account up to the restricted-account test
SweepStart ==
    /\ sw_pc = "start"
    /\ tg_pc \in {"idle", "done"}
    /\ IF SkipsAccount(dry_run, profile_name)
       THEN /\ deletion_log' = [deletion_log EXCEPT !.skip_reason = "Service Control Policies"]
            /\ sw_pc' = "skipped"
            /\ UNCHANGED sweep_order
       ELSE /\ sw_pc' = "run"
            /\ sweep_order' = SweepOrder(inventory)
            /\ UNCHANGED deletion_log
    /\ UNCHANGED <<sw_i, dry_run, profile_name, inventory, calls, tag_answer,
                   delete_answer, journal>>

NextItem == sweep_order[sw_i]

\* an inventory entry without its name field ('Name', 'FunctionName', ...)
MissingName == "(no name field)"

\* a handler reads the name field of an entry before the try block of its loop
\* body: the KeyError of an entry without one leaves the handler and
\* sweep_account; nothing is saved
SweepKeyError ==
    /\ sw_pc = "run"
    /\ sw_i <= Len(sweep_order)
    /\ NextItem.id = MissingName
    /\ sw_pc' = "error"
    /\ UNCHANGED <<sw_i, dry_run, profile_name, inventory, deletion_log, sweep_order,
                   calls, tag_answer, delete_answer, journal>>

SweepHandler(type) ==
    /\ sw_pc = "run"
    /\ sw_i <= Len(sweep_order)
    /\ NextItem.type = type
    /\ NextItem.id # MissingName
    /\ \E arn_ok \in ArnAnswers(NextItem), answer \in AnswersFor(NextItem),
          fail_at \in 0..Len(DestroyCalls(NextItem)) :
          \E kind \in LiveAnswers(NextItem, fail_at) :
              SweepItem(NextItem, arn_ok, answer, fail_at, kind)
    /\ UNCHANGED <<sw_pc, dry_run, profile_name, sweep_order, journal>>

delete_lambda_functions == SweepHandler("lambda_function") /\ UNCHANGED inventory
delete_ec2_resources == SweepHandler("ec2_instance") /\ UNCHANGED inventory
delete_rds_resources == SweepHandler("rds_instance") /\ UNCHANGED inventory
delete_s3_buckets == SweepHandler("s3_bucket") /\ UNCHANGED inventory

\* stacks.sort works on the inventory's own list, which is left sorted
delete_cloudformation_stacks ==
    /\ SweepHandler("cloudformation_stack")
    /\ LET region == NextItem.region
           mine == SelectSeq(sweep_order,
                             LAMBDA it : it.type = "cloudformation_stack" /\ it.region = region)
       IN inventory' = [inventory EXCEPT !.resources[region].cloudformation_stacks =
                                             [i \in 1..Len(mine) |-> mine[i].id]]

\* the end of sweep_account: end_time and the saved results
SweepFinish ==
    /\ sw_pc = "run"
    /\ sw_i > Len(sweep_order)
    /\ deletion_log' = [deletion_log EXCEPT !.end_time = TRUE, !.saved = TRUE]
    /\ sw_pc' = "done"
    /\ UNCHANGED <<sw_i, dry_run, profile_name, inventory, sweep_order, calls, tag_answer,
                   delete_answer, journal>>

\* the inventory file of the runs that are repeated
ResweepInventory ==
    [regions |-> <<"us-east-1">>,
     resources |->
        ("us-east-1" :> [lambda_functions |-> <<"fn-1">>,
                         s3_buckets |-> <<"my-app">>,
                         cloudformation_stacks |-> <<"cdk-app">>])]

\* the resources of the finished run whose live calls ended in the given way
Ended(kind) ==
    {sweep_order[k] : k \in {j \in 1..Len(delete_answer) : delete_answer[j] = kind}}

\* The agent is run again on the same inventory file: a new AccountSweeperAgent
\* is constructed, whose deletion_log starts empty; the results file of the
\* finished run is on disk.  The resources whose deletion completed are gone; a
\* stack that was still being deleted when the wait ended may be gone by now.
SweepAgain ==
    /\ sw_pc \in {"done", "skipped"}
    /\ journal.runs = 0
    /\ \E completed \in SUBSET Ended("wait_timeout") :
          journal' = [runs |-> 1, log |-> deletion_log, dry_run |-> dry_run,
                      ncalls |-> Len(calls), gone |-> Ended("ok") \cup completed,
                      tags |-> tag_answer]
    /\ dry_run' \in BOOLEAN
    /\ inventory' = ResweepInventory
    /\ deletion_log' = EmptyLog
    /\ sw_pc' = "start" /\ sw_i' = 1
    /\ sweep_order' = <<>> /\ tag_answer' = <<>> /\ delete_answer' = <<>>
    /\ UNCHANGED <<profile_name, calls>>

ResweepInit ==
    /\ sw_pc = "start" /\ sw_i = 1
    /\ dry_run \in BOOLEAN
    /\ profile_name \in {"Development-Admin", "Audit-Admin"}
    /\ inventory = ResweepInventory
    /\ deletion_log = EmptyLog /\ sweep_order = <<>> /\ calls = <<>> /\ tag_answer = <<>>
    /\ delete_answer = <<>> /\ journal = NoJournal

\* the inventories the sweeper is run on
MaxBuckets == 1
BucketNames == <<"my-app", "aws-controltower-logs", "zone.example.org">>

SweepInventory ==
    [regions |-> <<"us-east-1", "eu-west-1">>,
     resources |->
        ("us-east-1" :> [lambda_functions |-> <<"fn-1">>,
                         ec2_instances |-> <<"i-1">>,
                         rds_instances |-> <<"db-1">>,
                         s3_buckets |-> SubSeq(BucketNames, 1, MaxBuckets),
                         cloudformation_stacks |-> <<"AWSControlTower-BP">>]) @@
        ("eu-west-1" :> [lambda_functions |-> <<"fn-2">>])]

SweepIdle ==
    /\ sw_pc = "idle" /\ sw_i = 1 /\ dry_run = TRUE /\ profile_name = ""
    /\ inventory = [regions |-> <<>>, resources |-> <<>>]
    /\ deletion_log = EmptyLog /\ sweep_order = <<>> /\ calls = <<>> /\ tag_answer = <<>>
    /\ delete_answer = <<>> /\ journal = NoJournal

SweepInit ==
    /\ sw_pc = "start" /\ sw_i = 1
    /\ dry_run \in BOOLEAN
    /\ profile_name \in {"Development-Admin", "Audit-Admin"}
    /\ inventory = SweepInventory
    /\ deletion_log = EmptyLog /\ sweep_order = <<>> /\ calls = <<>> /\ tag_answer = <<>>
    /\ delete_answer = <<>> /\ journal = NoJournal

\* the inventory files of the runs whose file may be damaged: a complete one,
\* and one whose second bucket entry has no 'Name'
CompleteInventory ==
    [regions |-> <<"us-east-1">>,
     resources |->
        ("us-east-1" :> [lambda_functions |-> <<"fn-1">>, s3_buckets |-> <<"my-app">>])]

DamagedInventory ==
    [regions |-> <<"us-east-1">>,
     resources |->
        ("us-east-1" :> [lambda_functions |-> <<"fn-1">>,
                         s3_buckets |-> <<"my-app", MissingName>>])]

NotLoaded == [regions |-> <<>>, resources |-> <<>>]

\* AccountSweeperAgent.__init__: load_inventory opens and parses the file with
\* no try block, so a file that is missing or is not JSON ends the constructor
\* with an exception
load_inventory ==
    /\ sw_pc = "construct"
    /\ \E readable \in BOOLEAN :
         IF readable
         THEN /\ inventory' \in {CompleteInventory, DamagedInventory}
              /\ sw_pc' = "start"
         ELSE /\ sw_pc' = "error"
              /\ UNCHANGED inventory
    /\ UNCHANGED <<sw_i, dry_run, profile_name, deletion_log, sweep_order, calls,
                   tag_answer, delete_answer, journal>>

LoadInit ==
    /\ sw_pc = "construct" /\ sw_i = 1
    /\ dry_run \in BOOLEAN
    /\ profile_name \in {"Development-Admin", "Audit-Admin"}
    /\ inventory = NotLoaded
    /\ deletion_log = EmptyLog /\ sweep_order = <<>> /\ calls = <<>> /\ tag_answer = <<>>
    /\ delete_answer = <<>> /\ journal = NoJournal

\* an inventory of object stores only
BucketInventory ==
    [regions |-> <<"us-east-1">>,
     resources |-> ("us-east-1" :> [s3_buckets |-> BucketNames])]

BucketSweepInit ==
    /\ sw_pc = "start" /\ sw_i = 1
    /\ dry_run \in BOOLEAN
    /\ profile_name \in {"Development-Admin", "Audit-Admin"}
    /\ inventory = BucketInventory
    /\ deletion_log = EmptyLog /\ sweep_order = <<>> /\ calls = <<>> /\ tag_answer = <<>>
    /\ delete_answer = <<>> /\ journal = NoJournal

(***************************************************************************)
(* tagging_agent.py: tagging of buckets and stacks                         *)
(***************************************************************************)
\* should_preserve_resource(name) for the names of the model
NameDecision == [n \in DOMAIN Text |-> should_preserve_resource(n, <<>>)]

ReasonTag(reason) == [Key |-> PRESERVE_REASON_KEY, Value |-> reason]

\* the resources in the order tag_resources reaches them: the buckets listed
\* under us-east-1, then the stacks of every region as the inventory lists them
\* (tag_iam_resources and tag_ec2_resources touch neither buckets nor stacks)
TagOrder(inv) ==
    LET S[i \in 0..Len(inv.regions)] ==
            IF i = 0 THEN <<>>
            ELSE S[i - 1] \o Items("cloudformation_stack", inv.regions[i],
                                   Listed(inv, inv.regions[i], "cloudformation_stacks"))
    IN Items("s3_bucket", "us-east-1", Listed(inv, "us-east-1", "s3_buckets"))
        \o S[Len(inv.regions)]

TagItem == TagOrder(inventory)[tg_i]

NoResults == [resources_tagged |-> 0, resources_failed |-> 0, errors |-> <<>>]

Tagged(res) == [res EXCEPT !.resources_tagged = @ + 1]
TagFailed(res, item) ==
    [res EXCEPT !.resources_failed = @ + 1, !.errors = Append(@, item.id)]

\* One iteration of the loop of tag_s3_buckets.
\*   read_ok  whether get_bucket_tagging succeeds
\*   write_ok whether put_bucket_tagging succeeds
tag_s3_buckets ==
    /\ tg_pc = "run" /\ tg_i <= Len(TagOrder(inventory))
    /\ TagItem.type = "s3_bucket"
    /\ tg_i' = tg_i + 1
    /\ LET item == TagItem
           d == NameDecision[item.id]
       IN IF ~d.preserve
          THEN UNCHANGED <<tagging_results, cloud_tags, calls>>
          ELSE \E read_ok \in BOOLEAN, write_ok \in BOOLEAN :
                 LET current_tags == IF read_ok THEN cloud_tags[item.id] ELSE <<>>
                     new_tags == current_tags \o <<PreserveTag, ReasonTag(d.reason)>>
                 IN /\ calls' = calls \o CallsOf(item, <<"get_bucket_tagging",
                                                         "put_bucket_tagging">>)
                    /\ IF write_ok
                       THEN /\ cloud_tags' = [cloud_tags EXCEPT ![item.id] = new_tags]
                            /\ tagging_results' = Tagged(tagging_results)
                       ELSE /\ tagging_results' = TagFailed(tagging_results, item)
                            /\ UNCHANGED cloud_tags
    /\ UNCHANGED <<tg_pc, inventory>>

\* One iteration of the loop of tag_cloudformation_stacks.
\*   read_ok whether describe_stacks succeeds
\*   update  what update_stack does: "ok", "no_updates" (the error "No updates
\*           are to be performed") or "error"
tag_cloudformation_stacks ==
    /\ tg_pc = "run" /\ tg_i <= Len(TagOrder(inventory))
    /\ TagItem.type = "cloudformation_stack"
    /\ tg_i' = tg_i + 1
    /\ LET item == TagItem
           d == NameDecision[item.id]
       IN IF ~d.preserve
          THEN UNCHANGED <<tagging_results, cloud_tags, calls>>
          ELSE \E read_ok \in BOOLEAN, update \in {"ok", "no_updates", "error"} :
                 LET new_tags == cloud_tags[item.id] \o <<PreserveTag, ReasonTag(d.reason)>>
                 IN IF ~read_ok
                    THEN /\ calls' = calls \o CallsOf(item, <<"describe_stacks">>)
                         /\ tagging_results' = TagFailed(tagging_results, item)
                         /\ UNCHANGED cloud_tags
                    ELSE /\ calls' = calls \o CallsOf(item, <<"describe_stacks",
                                                              "update_stack">>)
                         /\ IF update = "ok"
                            THEN /\ cloud_tags' = [cloud_tags EXCEPT ![item.id] = new_tags]
                                 /\ tagging_results' = Tagged(tagging_results)
                            ELSE IF update = "no_updates"
                            THEN UNCHANGED <<cloud_tags, tagging_results>>
                            ELSE /\ tagging_results' = TagFailed(tagging_results, item)
                                 /\ UNCHANGED cloud_tags
    /\ UNCHANGED <<tg_pc, inventory>>

\* the end of tag_resources
TagFinish ==
    /\ tg_pc = "run" /\ tg_i > Len(TagOrder(inventory))
    /\ tg_pc' = "done"
    /\ UNCHANGED <<tg_i, tagging_results, cloud_tags, calls, inventory>>

\* the inventory the tagging agent and then the sweeper are run on
TagInventory ==
    [regions |-> <<"us-east-1">>,
     resources |->
        ("us-east-1" :> [s3_buckets |-> <<"aws-controltower-logs">>,
                         cloudformation_stacks |-> <<"AWSControlTower-BP", "cdk-app">>])]

\* the tags a resource may hold before the tagging agent runs
InitialTags == {<<>>, <<[Key |-> "Name", Value |-> "true"]>>}

TagIdle ==
    /\ tg_pc = "idle" /\ tg_i = 1 /\ tagging_results = NoResults /\ cloud_tags = <<>>

TagInit ==
    /\ tg_pc = "run" /\ tg_i = 1 /\ tagging_results = NoResults
    /\ cloud_tags \in [{"aws-controltower-logs", "AWSControlTower-BP", "cdk-app"}
                          -> InitialTags]
    /\ sw_pc = "start" /\ sw_i = 1
    /\ dry_run \in BOOLEAN
    /\ profile_name = "Development-Admin"
    /\ inventory = TagInventory
    /\ deletion_log = EmptyLog /\ sweep_order = <<>> /\ calls = <<>> /\ tag_answer = <<>>
    /\ delete_answer = <<>> /\ journal = NoJournal

(***************************************************************************)
(* Specification of the classifier: one call on an input drawn from the    *)
(* names and types below.                                                  *)
(***************************************************************************)
(* Account closure: the storage, compute and infrastructure destruction    *)
(* agents (agents/closure/*_destruction_agent.py), each a child process,   *)
(* driven by AccountClosureOrchestrator or by ClosureOrchestrator.         *)
(***************************************************************************)
Agents == {"storage", "compute", "infrastructure"}

\* priority_regions of destroy_all_compute and destroy_all_infrastructure
priority_regions == <<"us-east-1", "us-east-2", "us-west-1", "us-west-2">>

\* the answer of describe_regions in the account the closure runs against
DescribedRegions == <<"us-east-1", "eu-west-1">>

Range(seq) == {seq[i] : i \in 1..Len(seq)}

\* all_regions = priority_regions + other_regions
AllRegions(regions) ==
    priority_regions \o SelectSeq(regions, LAMBDA r : r \notin Range(priority_regions))

\* The resources of the account. describe_volumes lists the 'available'
\* volumes only, describe_nat_gateways the 'available' gateways, the security
\* groups are the non-default ones and the VPCs the non-default ones.
ClosureCloud == {
    [id |-> "aws-controltower-logs", type |-> "s3_bucket", region |-> "global",
     tags |-> <<PreserveTag>>],
    [id |-> "vol-1", type |-> "ebs_volume", region |-> "us-east-1", tags |-> <<>>],
    [id |-> "snap-1", type |-> "ebs_snapshot", region |-> "eu-west-1", tags |-> <<>>],
    [id |-> "fn-1", type |-> "lambda_function", region |-> "us-east-1", tags |-> <<>>],
    [id |-> "i-1", type |-> "ec2_instance", region |-> "us-east-1", tags |-> <<>>],
    [id |-> "i-2", type |-> "ec2_instance", region |-> "us-east-1", tags |-> <<>>],
    [id |-> "db-1", type |-> "rds_instance", region |-> "us-east-1", tags |-> <<>>],
    [id |-> "AWSControlTower-BP", type |-> "cloudformation_stack",
     region |-> "us-east-1", tags |-> <<>>],
    [id |-> "cdk-app", type |-> "cloudformation_stack", region |-> "eu-west-1",
     tags |-> <<>>],
    [id |-> "nat-1", type |-> "nat_gateway", region |-> "us-east-1", tags |-> <<>>],
    [id |-> "igw-1", type |-> "internet_gateway", region |-> "us-east-1", tags |-> <<>>],
    [id |-> "sg-1", type |-> "security_group", region |-> "us-east-1", tags |-> <<>>],
    [id |-> "vpc-1", type |-> "vpc", region |-> "us-east-1", tags |-> <<>>],
    [id |-> "vpc-2", type |-> "vpc", region |-> "eu-west-1", tags |-> <<>>] }

\* the resources whose delete call may raise in this account
MayFail == {"vol-1", "vpc-1", "i-1"}

CloudIds == {c.id : c \in ClosureCloud}

\* the ids a describe/list call of the given type answers in the region
Ids(type, region) == {c.id : c \in {d \in ClosureCloud : d.type = type /\ d.region = region}}

IdsOfType(type) == {c.id : c \in {d \in ClosureCloud : d.type = type}}

\* what the delete calls for the given ids answer: each succeeds or raises
Outcomes(ids) ==
    {o \in [ids -> {"destroyed", "failed"}] : \A id \in ids : o[id] = "failed" => id \in MayFail}

\* what one delete call for all the given ids answers: it returns, or it raises
\* because of one of them, and the handler's outer except clause, which only
\* prints, is reached before any entry is appended
BatchOutcomes(ids) ==
    {[id \in ids |-> "destroyed"]}
    \cup (IF ids \cap MayFail # {} THEN {[id \in ids |-> "unrecorded"]} ELSE {})

\* attempt after a delete call has been issued for every id
Attempted(ids, outcome) ==
    [id \in CloudIds |-> IF id \in ids THEN outcome[id] ELSE attempt[id]]

ClosureIdle ==
    /\ orchestrator = "none" /\ orch_pc = "idle"
    /\ proc = [a \in Agents |-> "none"]
    /\ phases = [a \in Agents |-> "none"]
    /\ barrier_elapsed = FALSE
    /\ attempt = [id \in CloudIds |-> "pending"]
    /\ storage_pc = "idle" /\ storage_tasks = {}
    /\ compute_pc = "idle" /\ compute_r = 0
    /\ infra_pc = "idle" /\ infra_r = 0 /\ infra_slept = FALSE
    /\ stacks_visited = {}
    /\ nuke_pending = {}

\* AccountClosureOrchestrator(profile).orchestrate_account_closure() or
\* ClosureOrchestrator(profile).run_comprehensive_nuke() is about to run
ClosureInit ==
    /\ orchestrator \in {"account", "complete"}
    /\ orch_pc = IF orchestrator = "account" THEN "storage" ELSE "phase1"
    /\ proc = [a \in Agents |-> "none"]
    /\ phases = [a \in Agents |-> "none"]
    /\ barrier_elapsed = FALSE
    /\ attempt = [id \in CloudIds |-> "pending"]
    /\ storage_pc = "idle" /\ storage_tasks = {}
    /\ compute_pc = "idle" /\ compute_r = 0
    /\ infra_pc = "idle" /\ infra_r = 0 /\ infra_slept = FALSE
    /\ stacks_visited = {}
    /\ nuke_pending = {}

orchVars == <<orchestrator, orch_pc, phases, barrier_elapsed, nuke_pending>>
storageVars == <<storage_pc, storage_tasks>>
computeVars == <<compute_pc, compute_r>>
infraVars == <<infra_pc, infra_r, infra_slept, stacks_visited>>
closureVars == <<orchVars, proc, attempt, storageVars, computeVars, infraVars>>
verifyVars == <<verification, log_saved, closure_log>>

NoVerification == [status |-> "none", s3_buckets |-> 0, ec2_instances |-> 0]

\* self.closure_log as __init__ leaves it
NewClosureLog == [completion_status |-> "in_progress", saved |-> FALSE]

VerifyIdle ==
    verification = NoVerification /\ log_saved = FALSE /\ closure_log = NewClosureLog

(* ---- the orchestrators' run_agent ------------------------------------ *)

\* the agent whose run_agent call the orchestrator has reached: the account
\* orchestrator calls them one after the other, the complete orchestrator
\* submits storage and compute to its pool together
Scheduled(a) ==
    \/ orchestrator = "account" /\ orch_pc = a
    \/ orchestrator = "complete" /\ orch_pc = "phase1" /\ a \in {"storage", "compute"}

\* where the orchestrator stands once run_agent(a) has returned
AfterAgent(a) ==
    IF orchestrator = "account"
    THEN CASE a = "storage" -> "compute"
           [] a = "compute" -> "sleep"
           [] OTHER -> "summary"
    ELSE orch_pc

\* the first step of the agent's main()
FirstStep(a) == IF a = "storage" THEN "s3" ELSE "regions"

\* run_agent up to the launch of the child: chmod or the launch may raise,
\* which run_agent turns into an 'error' result
run_agent_start(a) ==
    /\ Scheduled(a) /\ proc[a] = "none" /\ phases[a] = "none"
    /\ \/ /\ proc' = [proc EXCEPT ![a] = "running"]
          /\ storage_pc' = IF a = "storage" THEN FirstStep(a) ELSE storage_pc
          /\ compute_pc' = IF a = "compute" THEN FirstStep(a) ELSE compute_pc
          /\ infra_pc' = IF a = "infrastructure" THEN FirstStep(a) ELSE infra_pc
          /\ UNCHANGED <<phases, orch_pc>>
       \/ /\ proc' = [proc EXCEPT ![a] = "error"]
          /\ phases' = [phases EXCEPT ![a] = "error"]
          /\ orch_pc' = AfterAgent(a)
          /\ UNCHANGED <<storage_pc, compute_pc, infra_pc>>
    /\ UNCHANGED <<orchestrator, barrier_elapsed, nuke_pending, attempt, storage_tasks,
                   compute_r, infra_r, infra_slept, stacks_visited>>

\* subprocess.run returns with the child's exit status
run_agent_returns(a) ==
    /\ Scheduled(a) /\ proc[a] \in {"exit_0", "exit_1"} /\ phases[a] = "none"
    /\ phases' = [phases EXCEPT ![a] = IF proc[a] = "exit_0" THEN "success" ELSE "failed"]
    /\ orch_pc' = AfterAgent(a)
    /\ UNCHANGED <<orchestrator, barrier_elapsed, nuke_pending, proc, attempt,
                   storageVars, computeVars, infraVars>>

\* a subprocess.run without timeout
run_agent_timeout_Never(a) == FALSE

\* subprocess.run(timeout=1800) kills the child and waits for it before it
\* raises TimeoutExpired
run_agent_timeout(a) ==
    /\ Scheduled(a) /\ proc[a] = "running" /\ phases[a] = "none"
    /\ proc' = [proc EXCEPT ![a] = "killed"]
    /\ phases' = [phases EXCEPT ![a] = "timeout"]
    /\ orch_pc' = AfterAgent(a)
    /\ storage_pc' = IF a = "storage" THEN "end" ELSE storage_pc
    /\ storage_tasks' = IF a = "storage" THEN {} ELSE storage_tasks
    /\ compute_pc' = IF a = "compute" THEN "end" ELSE compute_pc
    /\ compute_r' = IF a = "compute" THEN 0 ELSE compute_r
    /\ infra_pc' = IF a = "infrastructure" THEN "end" ELSE infra_pc
    /\ infra_r' = IF a = "infrastructure" THEN 0 ELSE infra_r
    /\ UNCHANGED <<orchestrator, barrier_elapsed, nuke_pending, attempt,
                   infra_slept, stacks_visited>>

(* ---- storage_destruction_agent.StorageDestructionAgent ---------------- *)

\* the pool tasks destroy_all_storage submits: two per region
StorageTasks(regions) ==
    {<<"ebs_volume", r>> : r \in Range(regions)} \cup {<<"ebs_snapshot", r>> : r \in Range(regions)}

\* destroy_s3_buckets: every bucket list_buckets answers is emptied and deleted
destroy_s3_buckets ==
    /\ proc["storage"] = "running" /\ storage_pc = "s3"
    /\ \E listed \in BOOLEAN :
         LET ids == IF listed THEN IdsOfType("s3_bucket") ELSE {}
         IN \E outcome \in Outcomes(ids) : attempt' = Attempted(ids, outcome)
    /\ storage_pc' = "regions"
    /\ UNCHANGED <<orchVars, proc, storage_tasks, computeVars, infraVars>>

\* destroy_all_storage: describe_regions, outside any try block, then the
\* submission of the pool tasks
storage_describe_regions ==
    /\ proc["storage"] = "running" /\ storage_pc = "regions"
    /\ \/ /\ storage_pc' = "pool"
          /\ storage_tasks' = StorageTasks(DescribedRegions)
          /\ UNCHANGED proc
       \/ /\ storage_pc' = "end"
          /\ proc' = [proc EXCEPT !["storage"] = "exit_1"]
          /\ UNCHANGED storage_tasks
    /\ UNCHANGED <<orchVars, attempt, computeVars, infraVars>>

\* one pool task: destroy_ebs_volumes(region) or destroy_snapshots(region)
StorageTask(type) ==
    /\ proc["storage"] = "running" /\ storage_pc = "pool"
    /\ \E task \in storage_tasks :
         /\ task[1] = type
         /\ \E listed \in BOOLEAN :
              LET ids == IF listed THEN Ids(type, task[2]) ELSE {}
              IN \E outcome \in Outcomes(ids) : attempt' = Attempted(ids, outcome)
         /\ storage_tasks' = storage_tasks \ {task}
    /\ UNCHANGED <<orchVars, proc, storage_pc, computeVars, infraVars>>

destroy_ebs_volumes == StorageTask("ebs_volume")

destroy_snapshots == StorageTask("ebs_snapshot")

\* the pool is joined, the log is written (which may raise) and main returns
storage_save ==
    /\ proc["storage"] = "running" /\ storage_pc = "pool" /\ storage_tasks = {}
    /\ \E status \in {"exit_0", "exit_1"} :
         proc' = [proc EXCEPT !["storage"] = status]
    /\ storage_pc' = "end"
    /\ UNCHANGED <<orchVars, attempt, storage_tasks, computeVars, infraVars>>

(* ---- compute_destruction_agent.ComputeDestructionAgent ---------------- *)

compute_describe_regions ==
    /\ proc["compute"] = "running" /\ compute_pc = "regions"
    /\ \/ /\ compute_pc' = "lambda" /\ compute_r' = 1
          /\ UNCHANGED proc
       \/ /\ compute_pc' = "end"
          /\ proc' = [proc EXCEPT !["compute"] = "exit_1"]
          /\ UNCHANGED compute_r
    /\ UNCHANGED <<orchVars, attempt, storageVars, infraVars>>

\* destroy_lambda_functions(region): one delete_function per listed function
destroy_lambda_functions ==
    /\ proc["compute"] = "running" /\ compute_pc = "lambda"
    /\ \E listed \in BOOLEAN :
         LET ids == IF listed
                    THEN Ids("lambda_function", AllRegions(DescribedRegions)[compute_r])
                    ELSE {}
         IN \E outcome \in Outcomes(ids) : attempt' = Attempted(ids, outcome)
    /\ compute_pc' = "ec2"
    /\ UNCHANGED <<orchVars, proc, compute_r, storageVars, infraVars>>

\* destroy_ec2_instances(region): one terminate_instances call for all the
\* instances of the region
destroy_ec2_instances ==
    /\ proc["compute"] = "running" /\ compute_pc = "ec2"
    /\ \E listed \in BOOLEAN :
         LET ids == IF listed
                    THEN Ids("ec2_instance", AllRegions(DescribedRegions)[compute_r])
                    ELSE {}
         IN \E outcome \in BatchOutcomes(ids) : attempt' = Attempted(ids, outcome)
    /\ IF compute_r < Len(AllRegions(DescribedRegions))
       THEN compute_pc' = "lambda" /\ compute_r' = compute_r + 1
       ELSE compute_pc' = "save" /\ UNCHANGED compute_r
    /\ UNCHANGED <<orchVars, proc, storageVars, infraVars>>

compute_save ==
    /\ proc["compute"] = "running" /\ compute_pc = "save"
    /\ \E status \in {"exit_0", "exit_1"} :
         proc' = [proc EXCEPT !["compute"] = status]
    /\ compute_pc' = "end" /\ compute_r' = 0
    /\ UNCHANGED <<orchVars, attempt, storageVars, infraVars>>

(* ---- infrastructure_destruction_agent.InfrastructureDestructionAgent -- *)

infra_describe_regions ==
    /\ proc["infrastructure"] = "running" /\ infra_pc = "regions"
    /\ \/ /\ infra_pc' = "stacks" /\ infra_r' = 1
          /\ UNCHANGED proc
       \/ /\ infra_pc' = "end"
          /\ proc' = [proc EXCEPT !["infrastructure"] = "exit_1"]
          /\ UNCHANGED infra_r
    /\ UNCHANGED <<orchVars, attempt, storageVars, computeVars, infra_slept, stacks_visited>>

InfraRegion == AllRegions(DescribedRegions)[infra_r]

\* a loop that goes on to the networking of the region whose stacks it has
\* just deleted
AfterStacks_PerRegion(r, n) == [pc |-> "nat", r |-> r]

\* where destroy_all_infrastructure stands after destroy_cloudformation_stacks
\* has returned for region number r of n: the next region, then the sleep
AfterStacks(r, n) ==
    IF r < n THEN [pc |-> "stacks", r |-> r + 1] ELSE [pc |-> "sleep", r |-> r]

\* destroy_cloudformation_stacks(region): one delete_stack per listed stack
destroy_cloudformation_stacks ==
    /\ proc["infrastructure"] = "running" /\ infra_pc = "stacks"
    /\ \E listed \in BOOLEAN :
         LET ids == IF listed THEN Ids("cloudformation_stack", InfraRegion) ELSE {}
         IN \E outcome \in Outcomes(ids) : attempt' = Attempted(ids, outcome)
    /\ stacks_visited' = stacks_visited \cup {InfraRegion}
    /\ infra_pc' = AfterStacks(infra_r, Len(AllRegions(DescribedRegions))).pc
    /\ infra_r' = AfterStacks(infra_r, Len(AllRegions(DescribedRegions))).r
    /\ UNCHANGED <<orchVars, proc, storageVars, computeVars, infra_slept>>

\* time.sleep(30) between the two phases of destroy_all_infrastructure
infra_sleep ==
    /\ proc["infrastructure"] = "running" /\ infra_pc = "sleep"
    /\ infra_slept' = TRUE
    /\ infra_pc' = "nat" /\ infra_r' = 1
    /\ UNCHANGED <<orchVars, proc, attempt, storageVars, computeVars, stacks_visited>>

\* where destroy_all_infrastructure stands after destroy_networking(region)
AfterNetworking ==
    IF infra_r < Len(AllRegions(DescribedRegions))
    THEN [pc |-> "nat", r |-> infra_r + 1]
    ELSE [pc |-> "save", r |-> infra_r]

\* one of the four blocks of destroy_networking(region): a describe call
\* that raises ends destroy_networking for the region
NetworkingStep(pc, type, next) ==
    /\ proc["infrastructure"] = "running" /\ infra_pc = pc
    /\ \E listed \in BOOLEAN :
         IF listed
         THEN /\ \E outcome \in Outcomes(Ids(type, InfraRegion)) :
                   attempt' = Attempted(Ids(type, InfraRegion), outcome)
              /\ infra_pc' = next.pc /\ infra_r' = next.r
         ELSE /\ UNCHANGED attempt
              /\ infra_pc' = AfterNetworking.pc /\ infra_r' = AfterNetworking.r
    /\ UNCHANGED <<orchVars, proc, storageVars, computeVars, infra_slept, stacks_visited>>

destroy_nat_gateways ==
    NetworkingStep("nat", "nat_gateway", [pc |-> "igw", r |-> infra_r])

destroy_internet_gateways ==
    NetworkingStep("igw", "internet_gateway", [pc |-> "sg", r |-> infra_r])

destroy_security_groups ==
    NetworkingStep("sg", "security_group", [pc |-> "vpc", r |-> infra_r])

destroy_vpcs == NetworkingStep("vpc", "vpc", AfterNetworking)

infra_save ==
    /\ proc["infrastructure"] = "running" /\ infra_pc = "save"
    /\ \E status \in {"exit_0", "exit_1"} :
         proc' = [proc EXCEPT !["infrastructure"] = status]
    /\ infra_pc' = "end" /\ infra_r' = 0
    /\ UNCHANGED <<orchVars, attempt, storageVars, computeVars, infra_slept, stacks_visited>>

(* ---- the orchestrators' phases ---------------------------------------- *)

\* a pool that is left as soon as one of its run_agent calls has completed
PoolJoined_FirstCompleted(ph) == \E a \in {"storage", "compute"} : ph[a] # "none"

\* the pool of run_comprehensive_nuke is left: every submitted run_agent call
\* has completed (as_completed over both futures, then the with block's join)
PoolJoined(ph) == \A a \in {"storage", "compute"} : ph[a] # "none"

executor_exit ==
    /\ orchestrator = "complete" /\ orch_pc = "phase1"
    /\ PoolJoined(phases)
    /\ orch_pc' = "sleep"
    /\ UNCHANGED <<orchestrator, phases, barrier_elapsed, nuke_pending, proc, attempt,
                   storageVars, computeVars, infraVars>>

\* time.sleep(30) of orchestrate_account_closure, time.sleep(10) of
\* run_comprehensive_nuke
time_sleep ==
    /\ orch_pc = "sleep"
    /\ barrier_elapsed' = TRUE
    /\ orch_pc' = IF orchestrator = "account" THEN "infrastructure" ELSE "cli_nuke"
    /\ UNCHANGED <<orchestrator, phases, nuke_pending, proc, attempt,
                   storageVars, computeVars, infraVars>>

\* a variant that calls the closure completed as soon as one phase succeeded
CompletionStatus_AnyPhase(ph) ==
    IF \E a \in DOMAIN ph : ph[a] = "success" THEN "completed" ELSE "partial"

\* completion_status as orchestrate_account_closure computes it from the
\* recorded phases
CompletionStatus(ph) ==
    IF \A a \in DOMAIN ph : ph[a] = "success" THEN "completed" ELSE "partial"

\* orchestrate_account_closure after its third phase: summary, log, report
closure_summary ==
    /\ orchestrator = "account" /\ orch_pc = "summary"
    /\ orch_pc' = "done"
    /\ closure_log' = [completion_status |-> CompletionStatus(phases), saved |-> TRUE]
    /\ UNCHANGED <<orchestrator, phases, barrier_elapsed, nuke_pending, proc, attempt,
                   storageVars, computeVars, infraVars, verification, log_saved>>

\* run_cli_nuke: 'aws ec2 describe-regions', then one nuke_region per region
\* in a pool; nothing is done when the regions cannot be listed
run_cli_nuke ==
    /\ orchestrator = "complete" /\ orch_pc = "cli_nuke"
    /\ \/ orch_pc' = "nuke" /\ nuke_pending' = Range(DescribedRegions)
       \/ orch_pc' = "verify" /\ UNCHANGED nuke_pending
    /\ UNCHANGED <<orchestrator, phases, barrier_elapsed, proc, attempt,
                   storageVars, computeVars, infraVars>>

\* nuke_region(region): of its six shell commands the first deletes every
\* listed stack and the last, for every non-default VPC, its subnets and the
\* VPC; the others delete API gateways, alarms, topics and queues. Every
\* command's failure is ignored.
nuke_region ==
    /\ orchestrator = "complete" /\ orch_pc = "nuke"
    /\ \E region \in nuke_pending :
         /\ \E stacks_listed \in BOOLEAN, vpcs_listed \in BOOLEAN :
              LET ids == (IF stacks_listed THEN Ids("cloudformation_stack", region) ELSE {})
                           \cup (IF vpcs_listed THEN Ids("vpc", region) ELSE {})
              IN \E outcome \in Outcomes(ids) : attempt' = Attempted(ids, outcome)
         /\ nuke_pending' = nuke_pending \ {region}
    /\ UNCHANGED <<orchestrator, orch_pc, phases, barrier_elapsed, proc,
                   storageVars, computeVars, infraVars>>

\* a pool that is left while submitted tasks have not run
NukeJoined_NoWait(pending) == TRUE

\* the pool of run_cli_nuke is left: every nuke_region task has run
NukeJoined(pending) == pending = {}

\* run_cli_nuke returns once its pool is joined
run_cli_nuke_returns ==
    /\ orchestrator = "complete" /\ orch_pc = "nuke"
    /\ NukeJoined(nuke_pending)
    /\ orch_pc' = "verify"
    /\ UNCHANGED <<orchestrator, phases, barrier_elapsed, nuke_pending, proc, attempt,
                   storageVars, computeVars, infraVars, verifyVars>>

\* what a re-query of verify_account_empty can do: end with a non-zero return
\* code ("failed"), print the count ("count"), print the text None ("None"),
\* print something int() rejects ("unparsable"), or not be started ("raises")
S3Answers == {"failed", "count", "unparsable", "raises"}
Ec2Answers == {"failed", "count", "None", "unparsable", "raises"}

\* the resources of a type that are left, in the given regions
Residue(type, regions) ==
    Cardinality({c \in ClosureCloud :
                    c.type = type /\ c.region \in regions /\ attempt[c.id] # "destroyed"})

\* the body of verify_account_empty: the two counts start at 0 and are set
\* when the query returned 0 and printed a count; int() of any other text and
\* a query that cannot be started raise, which the except clause prints; the
\* EC2 query is not made once the S3 query has raised
Verified(s3, ec2) ==
    IF s3 \in {"unparsable", "raises"} \/ ec2 \in {"unparsable", "raises"}
    THEN [NoVerification EXCEPT !.status = "error"]
    ELSE [status |-> "recorded",
          s3_buckets |-> IF s3 = "count"
                         THEN Residue("s3_bucket", {c.region : c \in ClosureCloud})
                         ELSE 0,
          ec2_instances |-> IF ec2 = "count" THEN Residue("ec2_instance", {"us-east-1"})
                            ELSE 0]

\* a verification whose failure ends the run
AfterVerification_Fatal(v) == IF v.status = "error" THEN "aborted" ELSE "save"

\* where run_comprehensive_nuke stands after verify_account_empty: the call
\* returns whatever happened inside its try block
AfterVerification(v) == "save"

verify_account_empty ==
    /\ orchestrator = "complete" /\ orch_pc = "verify"
    /\ \E s3 \in S3Answers, ec2 \in Ec2Answers : verification' = Verified(s3, ec2)
    /\ orch_pc' = AfterVerification(verification')
    /\ UNCHANGED <<orchestrator, phases, barrier_elapsed, nuke_pending, proc, attempt,
                   storageVars, computeVars, infraVars, log_saved, closure_log>>

\* save_orchestration_log, then the closing prints of run_comprehensive_nuke
save_orchestration_log ==
    /\ orchestrator = "complete" /\ orch_pc = "save"
    /\ log_saved' = TRUE
    /\ orch_pc' = "done"
    /\ UNCHANGED <<orchestrator, phases, barrier_elapsed, nuke_pending, proc, attempt,
                   storageVars, computeVars, infraVars, verification, closure_log>>

(***************************************************************************)
(* The order in which the stacks of a region are attempted: stack_priority *)
(* of infrastructure_destruction_agent.destroy_cloudformation_stacks and   *)
(* of account_sweeper_agent.delete_cloudformation_stacks.                  *)
(***************************************************************************)
sortVars == <<so_stacks, so_done, so_sweeper, so_infra>>

\* stack_priority of InfrastructureDestructionAgent.destroy_cloudformation_stacks
infra_stack_priority(name) ==
    IF \/ Contains(<<"c","o","n","t","r","o","l","t","o","w","e","r">>, Lower(Text[name]))
       \/ Contains(<<"a","w","s","-","l","a","n","d","i","n","g","-","z","o","n","e">>,
                   Lower(Text[name]))
    THEN 3
    ELSE IF StartsWith(Lower(Text[name]), <<"s","t","a","c","k","s","e","t","-">>) THEN 2
    ELSE 1

\* sorted(stacks, key=stack_priority): stable, on three keys
InfraSortStacks(stacks) ==
    LET keys == [i \in 1..Len(stacks) |-> infra_stack_priority(stacks[i])]
    IN Tier(stacks, keys, 1) \o Tier(stacks, keys, 2) \o Tier(stacks, keys, 3)

\* the stack names a region may list, and the longest list
StackNames == {"my-app", "cdk-app", "AWSControlTower-BP", "StackSet-AWS-Landing-Zone",
               "StackSet-Baseline"}
MaxStacks == 3

\* the lists of distinct stack names of length at most MaxStacks
StackLists ==
    UNION {{l \in [1..n -> StackNames] : \A i, j \in 1..n : i # j => l[i] # l[j]}
           : n \in 0..MaxStacks}

SortIdle == so_stacks = <<>> /\ so_done = {"idle"} /\ so_sweeper = <<>> /\ so_infra = <<>>

SortInit ==
    so_stacks \in StackLists /\ so_done = {} /\ so_sweeper = <<>> /\ so_infra = <<>>

\* the sweeper sorts the list
SweeperSort ==
    /\ "sweeper" \notin so_done /\ "idle" \notin so_done
    /\ so_sweeper' = SortStacks(so_stacks)
    /\ so_done' = so_done \cup {"sweeper"}
    /\ UNCHANGED <<so_stacks, so_infra>>

\* the infrastructure agent sorts the list
InfraSort ==
    /\ "infrastructure" \notin so_done /\ "idle" \notin so_done
    /\ so_infra' = InfraSortStacks(so_stacks)
    /\ so_done' = so_done \cup {"infrastructure"}
    /\ UNCHANGED <<so_stacks, so_sweeper>>

(***************************************************************************)
(* TargetedS3BucketDestroyer (targeted_s3_bucket_destroyer.py)             *)
(***************************************************************************)
targetVars == <<tb_pc, tb_i, results, tb_calls>>

\* the answer of an s3 call: it returns, raises a ClientError with a code and
\* a message (scp: the message contains 'ServiceControlPolicy' or 'SCP'), or
\* raises another exception
Ok == [class |-> "none", code |-> "", scp |-> FALSE]
ClientError(code, scp) == [class |-> "ClientError", code |-> code, scp |-> scp]
OtherException == [class |-> "Exception", code |-> "", scp |-> FALSE]

Raised ==
    {ClientError(c, FALSE) :
        c \in {"AccessDenied", "NoSuchBucket", "404", "BucketNotEmpty", "InternalError"}}
    \cup {ClientError("AccessDenied", TRUE), ClientError("InternalError", TRUE)}
    \cup {OtherException}

\* target_buckets, and the buckets that hold objects
TARGET_BUCKETS ==
    <<"aws-config-bucket-134388504287", "cdk-hnb659fds-assets-134388504287-us-east-1">>
NonEmptyBuckets == {"aws-config-bucket-134388504287"}

\* the s3 calls of empty_bucket_contents, in order
EmptyOps(bucket) ==
    IF bucket \in NonEmptyBuckets
    THEN <<"list_object_versions", "delete_objects", "list_objects_v2">>
    ELSE <<"list_object_versions", "list_objects_v2">>

\* the s3 calls of remove_bucket_configurations, in order
ConfigOps ==
    <<"delete_bucket_policy", "delete_bucket_lifecycle", "delete_bucket_cors",
      "put_bucket_versioning", "put_bucket_notification_configuration">>
ConfigNames == <<"policy", "lifecycle", "cors", "versioning", "notifications">>

S3Call(op, bucket, answer) == [op |-> op, bucket |-> bucket, answer |-> answer]

\* empty_bucket_contents, when call number `at` raises `err` (at = 0: none does)
empty_bucket_contents(bucket, at, err) ==
    LET ops == EmptyOps(bucket)
        n == IF at = 0 THEN Len(ops) ELSE at
    IN [calls |-> [i \in 1..n |-> S3Call(ops[i], bucket, IF i = at THEN err ELSE Ok)],
        returns |-> IF at = 0 THEN "True"
                    ELSE IF err.class = "ClientError"
                    THEN (IF err.code = "AccessDenied" THEN "False"
                          ELSE IF err.code = "NoSuchBucket" THEN "True"
                          ELSE "False")
                    ELSE "raise",
        raised |-> err]

\* the first call of remove_bucket_configurations that raises a non-ClientError
\* (0: none)
FirstException(cfg) ==
    IF \E i \in 1..Len(cfg) : cfg[i].class = "Exception"
    THEN CHOOSE i \in 1..Len(cfg) :
            /\ cfg[i].class = "Exception"
            /\ \A j \in 1..(i - 1) : cfg[j].class # "Exception"
    ELSE 0

\* the elements of seq at the indices that satisfy keep, in order
RECURSIVE Kept(_, _, _)
Kept(seq, keep, i) ==
    IF i > Len(seq) THEN <<>>
    ELSE (IF keep[i] THEN <<seq[i]>> ELSE <<>>) \o Kept(seq, keep, i + 1)

\* remove_bucket_configurations, call i answering cfg[i]
remove_bucket_configurations(bucket, cfg) ==
    LET x == FirstException(cfg)
        n == IF x = 0 THEN Len(ConfigOps) ELSE x
    IN [calls |-> [i \in 1..n |-> S3Call(ConfigOps[i], bucket, cfg[i])],
        returns |-> IF x = 0 THEN "list" ELSE "raise",
        configurations_removed |->
            Kept(ConfigNames, [i \in 1..Len(cfg) |-> cfg[i] = Ok], 1),
        raised |-> IF x = 0 THEN Ok ELSE cfg[x]]

\* bucket_result as destroy_bucket creates it
NewBucketResult(bucket) ==
    [bucket_name |-> bucket, status |-> "failed", error_type |-> "None",
     error_message |-> "None", configurations_removed |-> <<>>,
     steps_completed |-> <<>>]

\* the except clauses of destroy_bucket: error_type for a raised error
ErrorType(e) ==
    IF e.class = "ClientError"
    THEN (IF e.code = "AccessDenied" THEN "access_denied"
          ELSE IF e.code = "BucketNotEmpty" THEN "bucket_not_empty"
          ELSE IF e.scp THEN "policy_restricted"
          ELSE "other_error")
    ELSE "unexpected_error"

\* the summary counter the except clauses of destroy_bucket increment
ErrorCounter(e) ==
    IF e.class = "ClientError"
    THEN (IF e.code = "AccessDenied" THEN "access_denied_errors"
          ELSE IF e.code = "BucketNotEmpty" THEN "none"
          ELSE IF e.scp THEN "policy_restricted_errors"
          ELSE "other_errors")
    ELSE "other_errors"

\* destroy_bucket leaves through one of its two outer except clauses
Excepted(result, issued, e) ==
    [result |-> [result EXCEPT !.error_type = ErrorType(e), !.error_message = "str(e)"],
     calls |-> issued, counter |-> ErrorCounter(e)]

\* destroy_bucket returns from inside the try block
Returned(result, issued) == [result |-> result, calls |-> issued, counter |-> "none"]

\* destroy_bucket for the answers ans = [head, empty_at, empty_err, cfg, del]
destroy_bucket(bucket, ans) ==
    LET r0 == NewBucketResult(bucket)
        head == <<S3Call("head_bucket", bucket, ans.head)>>
        r1 == [r0 EXCEPT !.steps_completed = <<"bucket_exists_check">>]
        e == empty_bucket_contents(bucket, ans.empty_at, ans.empty_err)
        r2 == [r1 EXCEPT !.steps_completed = @ \o <<"empty_contents">>]
        c == remove_bucket_configurations(bucket, ans.cfg)
        r3 == [r2 EXCEPT !.configurations_removed = c.configurations_removed,
                         !.steps_completed = @ \o <<"remove_configurations">>]
        del == <<S3Call("delete_bucket", bucket, ans.del)>>
    IN IF ans.head.class = "ClientError" /\ ans.head.code = "NoSuchBucket"
       THEN Returned([r0 EXCEPT !.status = "success",
                                !.error_message = "Bucket already deleted"], head)
       ELSE IF ans.head.class = "ClientError" /\ ans.head.code = "AccessDenied"
       THEN Returned([r0 EXCEPT !.error_type = "access_denied",
                                !.error_message = "str(e)"], head)
       ELSE IF ans.head # Ok THEN Excepted(r0, head, ans.head)
       ELSE IF e.returns = "raise" THEN Excepted(r1, head \o e.calls, e.raised)
       ELSE IF e.returns = "False"
       THEN Returned([r1 EXCEPT !.error_type = "empty_failed"], head \o e.calls)
       ELSE IF c.returns = "raise"
       THEN Excepted(r2, head \o e.calls \o c.calls, c.raised)
       ELSE IF ans.del # Ok
       THEN Excepted(r3, head \o e.calls \o c.calls \o del, ans.del)
       ELSE Returned([r3 EXCEPT !.steps_completed = @ \o <<"delete_bucket">>,
                                !.status = "success"],
                     head \o e.calls \o c.calls \o del)

\* the answers of the five configuration calls
AllOk == [i \in 1..Len(ConfigOps) |-> Ok]
CfgAnswers ==
    {AllOk,
     [AllOk EXCEPT ![1] = ClientError("AccessDenied", FALSE)],
     [i \in 1..Len(ConfigOps) |-> ClientError("AccessDenied", TRUE)],
     [AllOk EXCEPT ![4] = OtherException]}

\* the answers of the provider to the calls of one destroy_bucket
BucketAnswers(bucket) ==
    {[head |-> h, empty_at |-> 0, empty_err |-> Ok, cfg |-> AllOk, del |-> Ok] :
        h \in Raised}
    \cup {[head |-> Ok, empty_at |-> k, empty_err |-> x, cfg |-> c, del |-> d] :
            k \in 1..Len(EmptyOps(bucket)), x \in Raised, c \in {AllOk}, d \in {Ok}}
    \cup {[head |-> Ok, empty_at |-> k,
           empty_err |-> IF k = 0 THEN Ok ELSE ClientError("NoSuchBucket", FALSE),
           cfg |-> c, del |-> d] :
            k \in 0..Len(EmptyOps(bucket)), c \in CfgAnswers, d \in {Ok} \cup Raised}

NoSummary ==
    [total_attempted |-> 0, successful_deletions |-> 0, failed_deletions |-> 0,
     access_denied_errors |-> 0, policy_restricted_errors |-> 0, other_errors |-> 0]

NoTargetResults == [buckets_processed |-> <<>>, summary |-> NoSummary]

\* summary with the named counters incremented ("none" names no counter)
Counted(summary, names) ==
    [k \in DOMAIN summary |-> IF k \in names THEN summary[k] + 1 ELSE summary[k]]

TargetIdle == tb_pc = "idle" /\ tb_i = 0 /\ results = NoTargetResults /\ tb_calls = <<>>

TargetInit == tb_pc = "start" /\ tb_i = 0 /\ results = NoTargetResults /\ tb_calls = <<>>

\* destroy_target_buckets up to its loop
destroy_target_buckets ==
    /\ tb_pc = "start"
    /\ results' = [results EXCEPT !.summary.total_attempted = Len(TARGET_BUCKETS)]
    /\ tb_pc' = "loop" /\ tb_i' = 1
    /\ UNCHANGED tb_calls

\* the body of the loop of destroy_target_buckets, destroy_bucket included
ProcessBucket ==
    /\ tb_pc = "loop" /\ tb_i <= Len(TARGET_BUCKETS)
    /\ \E ans \in BucketAnswers(TARGET_BUCKETS[tb_i]) :
         LET d == destroy_bucket(TARGET_BUCKETS[tb_i], ans)
             outcome == IF d.result.status = "success" THEN "successful_deletions"
                        ELSE "failed_deletions"
         IN /\ results' =
                 [buckets_processed |-> Append(results.buckets_processed, d.result),
                  summary |-> Counted(results.summary, {d.counter, outcome})]
            /\ tb_calls' = tb_calls \o d.calls
    /\ tb_i' = tb_i + 1
    /\ UNCHANGED tb_pc

\* destroy_target_buckets returns self.results
TargetFinish ==
    /\ tb_pc = "loop" /\ tb_i > Len(TARGET_BUCKETS)
    /\ tb_pc' = "done"
    /\ UNCHANGED <<tb_i, results, tb_calls>>

(***************************************************************************)
(* storage_destruction_agent.py: the thread pool of destroy_all_storage.   *)
(* Every task is a thread of its own (there are fewer tasks than the       *)
(* pool's ten workers); the threads share self.destruction_log and are     *)
(* interleaved between any two of their steps.                             *)
(***************************************************************************)
poolVars == <<sp_pc, sp_task, sp_log>>

PoolRegions == <<"us-east-1", "eu-west-1">>

\* what describe_volumes and describe_snapshots answer in each region
PoolCloud ==
    [ebs_volume |-> ("us-east-1" :> <<"vol-1">> @@ "eu-west-1" :> <<"vol-2">>),
     ebs_snapshot |-> ("us-east-1" :> <<"snap-1">> @@ "eu-west-1" :> <<"snap-2">>)]

\* the submitted calls: destroy_ebs_volumes(region) and destroy_snapshots(region)
PoolTasks == {"ebs_volume", "ebs_snapshot"} \X {"us-east-1", "eu-west-1"}

\* the summary counter a task adds its deletions to
SummaryKey(type) == IF type = "ebs_volume" THEN "ebs_volumes" ELSE "snapshots"

NoPoolLog ==
    [destroyed |-> <<>>, failed |-> <<>>,
     summary |-> [ebs_volumes |-> 0, snapshots |-> 0, failed |-> 0],
     end_time |-> FALSE, saved |-> FALSE]

\* a task: where its thread stands, the index of the resource of its loop, the
\* counter it is about to write with the value it has read, and how its
\* describe call ended
NoTask == [pc |-> "none", i |-> 0, key |-> "", seen |-> 0, listed |-> "none"]

PoolIdle == sp_pc = "idle" /\ sp_task = [t \in PoolTasks |-> NoTask] /\ sp_log = NoPoolLog

PoolInit == sp_pc = "start" /\ sp_task = [t \in PoolTasks |-> NoTask] /\ sp_log = NoPoolLog

\* the resources task t loops over
TaskResources(t) == PoolCloud[t[1]][t[2]]

\* the log entry of the resource task t stands at
TaskEntry(t) == [type |-> t[1], id |-> TaskResources(t)[sp_task[t].i], region |-> t[2]]

\* destroy_all_storage up to the end of the submission loop
submit_tasks ==
    /\ sp_pc = "start"
    /\ sp_pc' = "pool"
    /\ sp_task' = [t \in PoolTasks |-> [NoTask EXCEPT !.pc = "describe"]]
    /\ UNCHANGED sp_log

\* the describe call of a task: when it raises, the task's outer except
\* clause prints and the task returns
task_describe(t) ==
    /\ sp_pc = "pool" /\ sp_task[t].pc = "describe"
    /\ \E raised \in BOOLEAN :
         sp_task' = [sp_task EXCEPT ![t] =
                        IF raised \/ TaskResources(t) = <<>>
                        THEN [@ EXCEPT !.pc = "end",
                                       !.listed = IF raised THEN "raised" ELSE "listed"]
                        ELSE [@ EXCEPT !.pc = "delete", !.i = 1, !.listed = "listed"]]
    /\ UNCHANGED <<sp_pc, sp_log>>

\* delete_volume / delete_snapshot returns or raises
task_delete(t) ==
    /\ sp_pc = "pool" /\ sp_task[t].pc = "delete"
    /\ \E raised \in BOOLEAN :
         sp_task' = [sp_task EXCEPT ![t].pc = IF raised THEN "append_failed"
                                              ELSE "append_destroyed"]
    /\ UNCHANGED <<sp_pc, sp_log>>

\* destruction_log['destroyed'].append(...) or destruction_log['failed'].append(...):
\* list.append is one step
task_append(t) ==
    /\ sp_pc = "pool" /\ sp_task[t].pc \in {"append_destroyed", "append_failed"}
    /\ IF sp_task[t].pc = "append_destroyed"
       THEN /\ sp_log' = [sp_log EXCEPT !.destroyed = Append(@, TaskEntry(t))]
            /\ sp_task' = [sp_task EXCEPT ![t].pc = "read", ![t].key = SummaryKey(t[1])]
       ELSE /\ sp_log' = [sp_log EXCEPT !.failed = Append(@, TaskEntry(t))]
            /\ sp_task' = [sp_task EXCEPT ![t].pc = "read", ![t].key = "failed"]
    /\ UNCHANGED sp_pc

\* summary[key] += 1, first half: the subscript is read
task_count_read(t) ==
    /\ sp_pc = "pool" /\ sp_task[t].pc = "read"
    /\ sp_task' = [sp_task EXCEPT ![t].pc = "write", ![t].seen = sp_log.summary[sp_task[t].key]]
    /\ UNCHANGED <<sp_pc, sp_log>>

\* summary[key] += 1, second half: the sum is stored; the loop goes on
task_count_write(t) ==
    /\ sp_pc = "pool" /\ sp_task[t].pc = "write"
    /\ sp_log' = [sp_log EXCEPT !.summary[sp_task[t].key] = sp_task[t].seen + 1]
    /\ sp_task' = [sp_task EXCEPT ![t] =
                      IF @.i < Len(TaskResources(t))
                      THEN [@ EXCEPT !.pc = "delete", !.i = @ + 1, !.key = "", !.seen = 0]
                      ELSE [@ EXCEPT !.pc = "end", !.key = "", !.seen = 0]]
    /\ UNCHANGED sp_pc

\* a loop over the futures that is left at the first completed one
AsCompleted_First(tasks) == \E t \in PoolTasks : tasks[t].pc = "end"

\* the as_completed loop over all the submitted futures has ended, and the
\* with block has shut the executor down: every task has returned
AsCompleted(tasks) == \A t \in PoolTasks : tasks[t].pc = "end"

\* destroy_all_storage after the with block: end_time, then the saved file
pool_save ==
    /\ sp_pc = "pool"
    /\ AsCompleted(sp_task)
    /\ sp_log' = [sp_log EXCEPT !.end_time = TRUE, !.saved = TRUE]
    /\ sp_pc' = "done"
    /\ UNCHANGED sp_task

(***************************************************************************)
(* account_closure_orchestrator.py: the counts run_agent reads from the    *)
(* text an agent prints, and the totals orchestrate_account_closure adds   *)
(* up.  The printed lines are sequences of characters; a pictograph is     *)
(* written as "*".                                                         *)
(***************************************************************************)
parseVars == <<pa_pc, destruction_logs, phase_results, closure_totals>>

Digits == <<"0","1","2","3","4","5","6","7","8","9">>

IsDigit(c) == \E d \in 1..Len(Digits) : Digits[d] = c

DigitValue(c) == (CHOOSE d \in 1..Len(Digits) : Digits[d] = c) - 1

\* str(n) as an f-string prints a count
RECURSIVE Decimal(_)
Decimal(n) ==
    IF n < 10 THEN <<Digits[n + 1]>> ELSE Decimal(n \div 10) \o <<Digits[(n % 10) + 1]>>

\* int(s) of a run of digits
RECURSIVE IntOf(_)
IntOf(s) ==
    IF s = <<>> THEN 0
    ELSE 10 * IntOf(SubSeq(s, 1, Len(s) - 1)) + DigitValue(s[Len(s)])

\* re.findall(r'\d+', line): TRUE when there is a match
HasNumber(line) == \E i \in 1..Len(line) : IsDigit(line[i])

\* int(re.findall(r'\d+', line)[0]): the first maximal run of digits
FirstNumber(line) ==
    LET from == CHOOSE i \in 1..Len(line) :
                    IsDigit(line[i]) /\ \A j \in 1..(i - 1) : ~IsDigit(line[j])
        to == CHOOSE k \in from..Len(line) :
                  /\ \A j \in from..k : IsDigit(line[j])
                  /\ (k = Len(line) \/ ~IsDigit(line[k + 1]))
    IN IntOf(SubSeq(line, from, to))

\* the names and error texts that appear in the printed lines
OutputText ==
    ("my-app" :> <<"m","y","-","a","p","p">>) @@
    ("vol-1" :> <<"v","o","l","-","1">>) @@
    ("fn-1" :> <<"f","n","-","1">>) @@
    ("i-1" :> <<"i","-","1">>) @@
    ("cdk-app" :> <<"c","d","k","-","a","p","p">>) @@
    ("vpc-1" :> <<"v","p","c","-","1">>) @@
    ("AccessDenied" :> <<"A","c","c","e","s","s","D","e","n","i","e","d">>) @@
    ("409 Conflict" :> <<"4","0","9"," ","C","o","n","f","l","i","c","t">>)

DestroyedLine == <<" "," "," "," ","*"," ","D","E","S","T","R","O","Y","E","D",":"," ">>
TerminatedLine == <<" "," "," "," ","*"," ","T","E","R","M","I","N","A","T","E","D",":"," ">>
DeletingLine == <<" "," "," "," ","*"," ","D","E","L","E","T","I","N","G",":"," ">>
DeletingTail == <<" ","(","d","e","l","e","t","i","o","n"," ","i","n"," ","p","r","o","g","r","e","s","s",")">>
FailedLine == <<" "," "," "," ","*"," ","F","A","I","L","E","D",":"," ">>
Dash == <<" ","-"," ">>
FailedTotal == <<" "," ","F","a","i","l","e","d",":"," ">>

\* the closing lines of each agent: the headline, and per summary counter the
\* text printed before its value
SummaryLines ==
    [storage |->
        [headline |-> <<"*"," ","S","T","O","R","A","G","E"," ","D","E","S","T","R","U","C","T","I","O","N"," ","C","O","M","P","L","E","T","E","!">>,
         counters |-> <<[text |-> <<" "," ","S","3"," ","B","u","c","k","e","t","s"," ","d","e","s","t","r","o","y","e","d",":"," ">>,
                        type |-> "s3_bucket"],
                       [text |-> <<" "," ","E","B","S"," ","V","o","l","u","m","e","s"," ","d","e","s","t","r","o","y","e","d",":"," ">>,
                        type |-> "ebs_volume"],
                       [text |-> <<" "," ","S","n","a","p","s","h","o","t","s"," ","d","e","s","t","r","o","y","e","d",":"," ">>,
                        type |-> "ebs_snapshot"]>>],
     compute |->
        [headline |-> <<"*"," ","C","O","M","P","U","T","E"," ","D","E","S","T","R","U","C","T","I","O","N"," ","C","O","M","P","L","E","T","E","!">>,
         counters |-> <<[text |-> <<" "," ","E","C","2"," ","I","n","s","t","a","n","c","e","s"," ","d","e","s","t","r","o","y","e","d",":"," ">>,
                        type |-> "ec2_instance"],
                       [text |-> <<" "," ","L","a","m","b","d","a"," ","F","u","n","c","t","i","o","n","s"," ","d","e","s","t","r","o","y","e","d",":"," ">>,
                        type |-> "lambda_function"]>>],
     infrastructure |->
        [headline |-> <<"*"," ","I","N","F","R","A","S","T","R","U","C","T","U","R","E"," ","D","E","S","T","R","U","C","T","I","O","N"," ","C","O","M","P","L","E","T","E","!">>,
         counters |-> <<[text |-> <<" "," ","C","l","o","u","d","F","o","r","m","a","t","i","o","n"," ","S","t","a","c","k","s",":"," ">>,
                        type |-> "cloudformation_stack"],
                       [text |-> <<" "," ","V","P","C","s"," ","d","e","s","t","r","o","y","e","d",":"," ">>,
                        type |-> "vpc"],
                       [text |-> <<" "," ","S","e","c","u","r","i","t","y"," ","G","r","o","u","p","s",":"," ">>,
                        type |-> "security_group"],
                       [text |-> <<" "," ","I","n","t","e","r","n","e","t"," ","G","a","t","e","w","a","y","s",":"," ">>,
                        type |-> "internet_gateway"],
                       [text |-> <<" "," ","N","A","T"," ","G","a","t","e","w","a","y","s",":"," ">>,
                        type |-> "nat_gateway"]>>]]

\* the texts run_agent looks for in a lowered line
KeyDestroyed == <<"d","e","s","t","r","o","y","e","d",":">>
KeyComplete == <<"c","o","m","p","l","e","t","e","!">>
KeyFailed == <<"f","a","i","l","e","d",":">>

\* what each agent finds, in the order it processes it
AgentResources ==
    [storage |-> <<[type |-> "s3_bucket", id |-> "my-app"],
                   [type |-> "ebs_volume", id |-> "vol-1"]>>,
     compute |-> <<[type |-> "lambda_function", id |-> "fn-1"],
                   [type |-> "ec2_instance", id |-> "i-1"]>>,
     infrastructure |-> <<[type |-> "cloudformation_stack", id |-> "cdk-app"],
                          [type |-> "vpc", id |-> "vpc-1"]>>]

\* the texts of the exceptions the delete calls raise
ErrorTexts == {"AccessDenied", "409 Conflict"}

\* how the deletion of one resource ends: no attempt, success, or one of the
\* errors; a terminate_instances that raises leaves no entry
ResourceOutcomes(r) ==
    IF r.type = "ec2_instance" THEN {"none", "destroyed"}
    ELSE {"none", "destroyed"} \cup ErrorTexts

\* the entries of the agent's destruction_log and the lines it prints while
\* it runs, for outcomes o (one per resource)
DestroyedEntries(rs, o) == SelectSeq(rs, LAMBDA r : o[r.id] = "destroyed")

FailedEntries(rs, o) ==
    LET failed == SelectSeq(rs, LAMBDA r : o[r.id] \in ErrorTexts)
    IN [i \in 1..Len(failed) |->
           [type |-> failed[i].type, id |-> failed[i].id, error |-> o[failed[i].id]]]

ResourceLine(r, outcome) ==
    IF outcome = "destroyed"
    THEN (IF r.type = "ec2_instance" THEN TerminatedLine \o OutputText[r.id]
          ELSE IF r.type = "cloudformation_stack"
          THEN DeletingLine \o OutputText[r.id] \o DeletingTail
          ELSE DestroyedLine \o OutputText[r.id])
    ELSE FailedLine \o OutputText[r.id] \o Dash \o OutputText[outcome]

CountOfType(entries, type) == Len(SelectSeq(entries, LAMBDA e : e.type = type))

\* result.stdout.split('\n') of an agent that ran to its end
Stdout(agent, o) ==
    LET rs == AgentResources[agent]
        attempted == SelectSeq(rs, LAMBDA r : o[r.id] # "none")
        closing == SummaryLines[agent]
    IN [i \in 1..Len(attempted) |-> ResourceLine(attempted[i], o[attempted[i].id])]
        \o <<closing.headline>>
        \o [i \in 1..Len(closing.counters) |->
               closing.counters[i].text
                   \o Decimal(CountOfType(DestroyedEntries(rs, o), closing.counters[i].type))]
        \o <<FailedTotal \o Decimal(Len(FailedEntries(rs, o)))>>

\* The loop of run_agent over the output lines.  `import re` stands inside the
\* first branch, which makes re a local name of run_agent: it is unbound until
\* a line of the first branch has been seen, and the NameError of the second
\* branch is swallowed by its bare except.
ParseOutput(lines) ==
    LET P[i \in 0..Len(lines)] ==
            IF i = 0 THEN [destroyed_count |-> 0, failed_count |-> 0, re_bound |-> FALSE]
            ELSE LET before == P[i - 1]
                     lower == Lower(lines[i])
                 IN IF Contains(KeyDestroyed, lower) \/ Contains(KeyComplete, lower)
                    THEN [before EXCEPT
                            !.re_bound = TRUE,
                            !.destroyed_count =
                                IF HasNumber(lines[i]) THEN @ + FirstNumber(lines[i]) ELSE @]
                    ELSE IF Contains(KeyFailed, lower)
                    THEN [before EXCEPT
                            !.failed_count =
                                IF before.re_bound /\ HasNumber(lines[i])
                                THEN @ + FirstNumber(lines[i]) ELSE @]
                    ELSE before
    IN P[Len(lines)]

NoLog == [destroyed |-> <<>>, failed |-> <<>>, stdout |-> <<>>]
NoPhase == [status |-> "none", resources_destroyed |-> 0, failures |-> 0]
NoTotals == [total_resources_destroyed |-> 0, total_failures |-> 0]

ParseAgents == <<"storage", "compute", "infrastructure">>

ParseIdle ==
    /\ pa_pc = 0
    /\ destruction_logs = [a \in Agents |-> NoLog]
    /\ phase_results = [a \in Agents |-> NoPhase]
    /\ closure_totals = NoTotals

ParseInit ==
    /\ pa_pc = 1
    /\ destruction_logs = [a \in Agents |-> NoLog]
    /\ phase_results = [a \in Agents |-> NoPhase]
    /\ closure_totals = NoTotals

\* run_agent for the next agent: the child runs to its end with return code
\* 0, and its output is parsed
run_agent_parse ==
    /\ pa_pc \in 1..Len(ParseAgents)
    /\ LET agent == ParseAgents[pa_pc]
           rs == AgentResources[agent]
       IN \E o \in [{rs[i].id : i \in 1..Len(rs)} -> {"none", "destroyed"} \cup ErrorTexts] :
            /\ \A i \in 1..Len(rs) : o[rs[i].id] \in ResourceOutcomes(rs[i])
            /\ destruction_logs' =
                  [destruction_logs EXCEPT ![agent] =
                      [destroyed |-> DestroyedEntries(rs, o),
                       failed |-> FailedEntries(rs, o),
                       stdout |-> Stdout(agent, o)]]
            /\ phase_results' =
                  [phase_results EXCEPT ![agent] =
                      [status |-> "success",
                       resources_destroyed |-> ParseOutput(Stdout(agent, o)).destroyed_count,
                       failures |-> ParseOutput(Stdout(agent, o)).failed_count]]
    /\ pa_pc' = pa_pc + 1
    /\ UNCHANGED closure_totals

\* the sum of a field over the three agents
RECURSIVE SumOver(_, _)
SumOver(f, agents) ==
    IF agents = {} THEN 0
    ELSE LET a == CHOOSE x \in agents : TRUE IN f[a] + SumOver(f, agents \ {a})

\* the final summary of orchestrate_account_closure
closure_totals_sum ==
    /\ pa_pc = Len(ParseAgents) + 1
    /\ closure_totals' =
          [total_resources_destroyed |->
               SumOver([a \in Agents |-> phase_results[a].resources_destroyed], Agents),
           total_failures |-> SumOver([a \in Agents |-> phase_results[a].failures], Agents)]
    /\ pa_pc' = pa_pc + 1
    /\ UNCHANGED <<destruction_logs, phase_results>>

(***************************************************************************)
(* infrastructure_destruction_agent.destroy_networking: the internet       *)
(* gateways of one region, call by call.                                   *)
(***************************************************************************)
VARIABLES
    gw_pc,      \* "idle", "describe", "loop" or "done"
    igws,       \* the InternetGateways that describe_internet_gateways answered
    gw_i,       \* the index of the next gateway of igws
    gw_calls,   \* the ec2 calls issued, in order, with their answers
    gw_log      \* destruction_log: destroyed, failed, summary

gwVars == <<gw_pc, igws, gw_i, gw_calls, gw_log>>

\* the internet gateways of the region, with their Attachments
Gateways ==
    <<[id |-> "igw-1", attachments |-> <<"vpc-1">>],
      [id |-> "igw-2", attachments |-> <<"vpc-2", "vpc-3">>]>>

\* what describe_internet_gateways may answer: the gateways that still have
\* an attachment, in any order
GatewayListings ==
    {<<>>, <<Gateways[1]>>, <<Gateways[2]>>, Gateways, <<Gateways[2], Gateways[1]>>}

\* what detach_internet_gateway and delete_internet_gateway raise
NotAttached == ClientError("Gateway.NotAttached", FALSE)
DependencyViolation == ClientError("DependencyViolation", FALSE)

Ec2Call(op, id, answer) == [op |-> op, id |-> id, answer |-> answer]

NoGatewayLog ==
    [destroyed |-> <<>>, failed |-> <<>>,
     summary |-> [internet_gateways |-> 0, failed |-> 0]]

GatewayIdle ==
    gw_pc = "idle" /\ igws = <<>> /\ gw_i = 0 /\ gw_calls = <<>> /\ gw_log = NoGatewayLog

GatewayInit ==
    gw_pc = "describe" /\ igws = <<>> /\ gw_i = 0 /\ gw_calls = <<>> /\ gw_log = NoGatewayLog

\* the first detach call that raises (0: none does)
FirstRaised(detach) ==
    IF \E i \in 1..Len(detach) : detach[i] # Ok
    THEN CHOOSE i \in 1..Len(detach) :
            detach[i] # Ok /\ \A j \in 1..(i - 1) : detach[j] = Ok
    ELSE 0

\* the body of the loop over igws for the answers ans = [detach, del]: the
\* detach calls and the delete call stand in one try block
destroy_gateway(igw, ans) ==
    LET x == FirstRaised(ans.detach)
        n == IF x = 0 THEN Len(igw.attachments) ELSE x
        detached == [i \in 1..n |->
                        Ec2Call("detach_internet_gateway", igw.id, ans.detach[i])]
        del == <<Ec2Call("delete_internet_gateway", igw.id, ans.del)>>
    IN IF x # 0 THEN [calls |-> detached, outcome |-> "failed"]
       ELSE IF ans.del # Ok THEN [calls |-> detached \o del, outcome |-> "failed"]
       ELSE [calls |-> detached \o del, outcome |-> "destroyed"]

\* the answers of the provider to the calls for one gateway
GatewayAnswers(igw) ==
    {[detach |-> d, del |-> x] :
        d \in [1..Len(igw.attachments) -> {Ok, NotAttached, DependencyViolation}],
        x \in {Ok, DependencyViolation}}

\* igws = ec2.describe_internet_gateways(...)['InternetGateways']
describe_internet_gateways ==
    /\ gw_pc = "describe"
    /\ igws' \in GatewayListings
    /\ gw_pc' = "loop" /\ gw_i' = 1
    /\ UNCHANGED <<gw_calls, gw_log>>

\* one turn of the loop over igws
ProcessGateway ==
    /\ gw_pc = "loop" /\ gw_i <= Len(igws)
    /\ \E ans \in GatewayAnswers(igws[gw_i]) :
         LET d == destroy_gateway(igws[gw_i], ans)
         IN /\ gw_calls' = gw_calls \o d.calls
            /\ gw_log' =
                 IF d.outcome = "destroyed"
                 THEN [gw_log EXCEPT !.destroyed = Append(@, igws[gw_i].id),
                                     !.summary.internet_gateways = @ + 1]
                 ELSE [gw_log EXCEPT !.failed = Append(@, igws[gw_i].id),
                                     !.summary.failed = @ + 1]
    /\ gw_i' = gw_i + 1
    /\ UNCHANGED <<gw_pc, igws>>

\* the loop over igws has ended
GatewaysDone ==
    /\ gw_pc = "loop" /\ gw_i > Len(igws)
    /\ gw_pc' = "done"
    /\ UNCHANGED <<igws, gw_i, gw_calls, gw_log>>

(***************************************************************************)
(* The two classifiers called again on the input they were called on:      *)
(* AWSTaggingAgent.should_preserve_resource and                            *)
(* AccountSweeperAgent.is_resource_preserved.                              *)
(***************************************************************************)
VARIABLES
    ev_pc,          \* "idle" or "input"
    ev_name,        \* resource_name, also the resource_id
    ev_type,        \* resource_type (segments split on "::")
    ev_tags,        \* the tag list given to is_resource_preserved
    ev_decisions,   \* what the calls of should_preserve_resource returned, in order
    ev_preserved    \* what the calls of is_resource_preserved returned, in order

evalVars == <<ev_pc, ev_name, ev_type, ev_tags, ev_decisions, ev_preserved>>

\* the number of calls made on one input
MaxEvaluations == 2

EvalIdle ==
    /\ ev_pc = "idle" /\ ev_name = "" /\ ev_type = <<>> /\ ev_tags = <<>>
    /\ ev_decisions = <<>> /\ ev_preserved = <<>>

\* one call of should_preserve_resource(resource_name, resource_type): it
\* reads its arguments and PRESERVE_PATTERNS and assigns no attribute
call_should_preserve_resource ==
    /\ ev_pc = "input" /\ Len(ev_decisions) < MaxEvaluations
    /\ ev_decisions' = Append(ev_decisions, should_preserve_resource(ev_name, ev_type))
    /\ UNCHANGED <<ev_pc, ev_name, ev_type, ev_tags, ev_preserved>>

\* one call of is_resource_preserved(resource_id, tags)
call_is_resource_preserved ==
    /\ ev_pc = "input" /\ Len(ev_preserved) < MaxEvaluations
    /\ ev_preserved' = Append(ev_preserved, is_resource_preserved(ev_name, ev_tags))
    /\ UNCHANGED <<ev_pc, ev_name, ev_type, ev_tags, ev_decisions>>

(***************************************************************************)
(* complete_closure_orchestrator: phase 1 of run_comprehensive_nuke, the   *)
(* two run_agent calls of the pool interleaved step by step.               *)
(***************************************************************************)
VARIABLES
    p1_pc,        \* the orchestrator: "idle", "submit", "pool" or "joined"
    p1_thread,    \* per agent: where its run_agent call stands, its result, the
                  \* counter value it has read
    p1_log        \* orchestration_log: phases and summary

phase1Vars == <<p1_pc, p1_thread, p1_log>>

\* the agents submitted to the pool, and the phase_name given to run_agent
PhaseOneAgents == {"storage", "compute"}
PhaseName == [storage |-> "STORAGE_DESTRUCTION", compute |-> "COMPUTE_DESTRUCTION"]

\* the status run_agent records: returncode 0, another returncode,
\* TimeoutExpired, another exception
RunStatuses == {"success", "failed", "timeout", "error"}

\* the counter of summary that run_agent increments for a status
PhaseCounter(status) ==
    IF status = "success" THEN "phases_completed" ELSE "phases_failed"

NoThread == [pc |-> "none", status |-> "none", seen |-> 0]

\* orchestration_log as __init__ leaves it
NewOrchestrationLog ==
    [phases |-> [n \in {PhaseName[a] : a \in PhaseOneAgents} |-> "none"],
     summary |-> [phases_completed |-> 0, phases_failed |-> 0]]

PhaseOneIdle ==
    /\ p1_pc = "idle" /\ p1_thread = [a \in PhaseOneAgents |-> NoThread]
    /\ p1_log = NewOrchestrationLog

PhaseOneInit ==
    /\ p1_pc = "submit" /\ p1_thread = [a \in PhaseOneAgents |-> NoThread]
    /\ p1_log = NewOrchestrationLog

\* executor.submit(self.run_agent, ...) for both agents
submit_agents ==
    /\ p1_pc = "submit"
    /\ p1_thread' = [a \in PhaseOneAgents |-> [NoThread EXCEPT !.pc = "run"]]
    /\ p1_pc' = "pool"
    /\ UNCHANGED p1_log

\* subprocess.run of the thread returns or raises
agent_result(a) ==
    /\ p1_pc = "pool" /\ p1_thread[a].pc = "run"
    /\ \E status \in RunStatuses :
         p1_thread' = [p1_thread EXCEPT ![a] = [@ EXCEPT !.pc = "phase", !.status = status]]
    /\ UNCHANGED <<p1_pc, p1_log>>

\* self.orchestration_log['phases'][phase_name] = {...}
phase_write(a) ==
    /\ p1_pc = "pool" /\ p1_thread[a].pc = "phase"
    /\ p1_log' = [p1_log EXCEPT !.phases[PhaseName[a]] = p1_thread[a].status]
    /\ p1_thread' = [p1_thread EXCEPT ![a] = [@ EXCEPT !.pc = "read"]]
    /\ UNCHANGED p1_pc

\* summary[counter] += 1, the read of the counter
counter_read(a) ==
    /\ p1_pc = "pool" /\ p1_thread[a].pc = "read"
    /\ p1_thread' =
         [p1_thread EXCEPT ![a] =
             [@ EXCEPT !.pc = "write",
                       !.seen = p1_log.summary[PhaseCounter(p1_thread[a].status)]]]
    /\ UNCHANGED <<p1_pc, p1_log>>

\* summary[counter] += 1, the store of the value read plus one; run_agent
\* returns
counter_write(a) ==
    /\ p1_pc = "pool" /\ p1_thread[a].pc = "write"
    /\ p1_log' = [p1_log EXCEPT !.summary[PhaseCounter(p1_thread[a].status)] =
                                    p1_thread[a].seen + 1]
    /\ p1_thread' = [p1_thread EXCEPT ![a] = [@ EXCEPT !.pc = "returned"]]
    /\ UNCHANGED p1_pc

\* the with block of the pool is left: both futures are done
pool_exit ==
    /\ p1_pc = "pool"
    /\ \A a \in PhaseOneAgents : p1_thread[a].pc = "returned"
    /\ p1_pc' = "joined"
    /\ UNCHANGED <<p1_thread, p1_log>>

(***************************************************************************)
(* tagging_agent.py run a second time on the inventory of its first run.   *)
(***************************************************************************)
VARIABLES
    rt_run,     \* the number of the tagging run (0: none)
    rt_first    \* the tags of the account and tagging_results at the end of run 1

retagVars == <<rt_run, rt_first>>

NoFirstRun == [tags |-> <<>>, results |-> NoResults]

RetagIdle == rt_run = 0 /\ rt_first = NoFirstRun

\* AWSTaggingAgent(profile) is constructed and tag_resources called again:
\* tagging_results starts empty, the account keeps its tags
TagAgain ==
    /\ tg_pc = "done" /\ rt_run = 1
    /\ rt_first' = [tags |-> cloud_tags, results |-> tagging_results]
    /\ rt_run' = 2
    /\ tg_pc' = "run" /\ tg_i' = 1 /\ tagging_results' = NoResults
    /\ UNCHANGED cloud_tags

\* the variables of the parts added last, and their values while those
\* parts are not run
moreVars == <<gwVars, evalVars, phase1Vars, retagVars>>
MoreIdle == GatewayIdle /\ EvalIdle /\ PhaseOneIdle /\ RetagIdle

\* the variables of the parts added after the stacks' order and the targeted
\* buckets, and their values while those parts are not run
lateVars == <<poolVars, verifyVars, parseVars, moreVars>>
LateIdle == PoolIdle /\ VerifyIdle /\ ParseIdle /\ MoreIdle

\* the variables of the parts that follow the account closure, and their
\* values while those parts are not run
extraVars == <<sortVars, targetVars, lateVars>>
ExtraIdle == SortIdle /\ TargetIdle /\ LateIdle

(***************************************************************************)
ClassifyNames == DOMAIN Text

ClassifyTypes == {
    <<>>,
    <<"AWS","IAM","Role">>,
    <<"AWS","IAM","ManagedPolicy">>,
    <<"AWS","Organizations","OrganizationalUnit">>,
    <<"AWS","ControlTower","LandingZone">>,
    <<"AWS","Route53","HostedZone">>,
    <<"AWS","Budgets","Budget">>,
    <<"AWS","SavingsPlans","SavingsPlan">>,
    <<"AWS","S3","Bucket">>,
    <<"AWS","CloudFormation","Stack">> }

NoDecision == [preserve |-> FALSE, reason |-> "(not called)"]

ClassIdle ==
    /\ cl_pc = "idle" /\ resource_name = "" /\ resource_type = <<>>
    /\ decision = NoDecision

ClassInit ==
    /\ cl_pc = "input"
    /\ resource_name \in ClassifyNames
    /\ resource_type \in ClassifyTypes
    /\ decision = NoDecision
    /\ SweepIdle /\ TagIdle /\ ClosureIdle /\ ExtraIdle

Classify ==
    /\ cl_pc = "input"
    /\ decision' = should_preserve_resource(resource_name, resource_type)
    /\ cl_pc' = "done"
    /\ UNCHANGED <<resource_name, resource_type>>
    /\ UNCHANGED <<sweepVars, tagVars, closureVars, extraVars>>

vars == <<classVars, sweepVars, tagVars, closureVars, extraVars>>

ClassNext == Classify

SpecClassify == ClassInit /\ [][ClassNext]_vars

(***************************************************************************)
(* Specification of the sweeper: one sweep_account run, in dry-run or live *)
(* mode, against an account that answers every call as it likes.           *)
(***************************************************************************)
SweepNext ==
    \/ (SweepStart /\ UNCHANGED <<classVars, tagVars, closureVars, extraVars>>)
    \/ (delete_lambda_functions /\ UNCHANGED <<classVars, tagVars, closureVars, extraVars>>)
    \/ (delete_ec2_resources /\ UNCHANGED <<classVars, tagVars, closureVars, extraVars>>)
    \/ (delete_rds_resources /\ UNCHANGED <<classVars, tagVars, closureVars, extraVars>>)
    \/ (delete_s3_buckets /\ UNCHANGED <<classVars, tagVars, closureVars, extraVars>>)
    \/ (delete_cloudformation_stacks /\ UNCHANGED <<classVars, tagVars, closureVars, extraVars>>)
    \/ (SweepFinish /\ UNCHANGED <<classVars, tagVars, closureVars, extraVars>>)

SweepSpecInit == SweepInit /\ ClassIdle /\ TagIdle /\ ClosureIdle /\ ExtraIdle

SpecSweep == SweepSpecInit /\ [][SweepNext]_vars

(***************************************************************************)
(* Specification of a sweep from the construction of the agent on, with an *)
(* inventory file that may be unreadable or lack the name of an entry.     *)
(***************************************************************************)
LoadSpecInit == LoadInit /\ ClassIdle /\ TagIdle /\ ClosureIdle /\ ExtraIdle

LoadNext ==
    \/ (load_inventory /\ UNCHANGED <<classVars, tagVars, closureVars, extraVars>>)
    \/ (SweepStart /\ UNCHANGED <<classVars, tagVars, closureVars, extraVars>>)
    \/ (delete_lambda_functions /\ UNCHANGED <<classVars, tagVars, closureVars, extraVars>>)
    \/ (delete_s3_buckets /\ UNCHANGED <<classVars, tagVars, closureVars, extraVars>>)
    \/ (SweepKeyError /\ UNCHANGED <<classVars, tagVars, closureVars, extraVars>>)
    \/ (SweepFinish /\ UNCHANGED <<classVars, tagVars, closureVars, extraVars>>)

SpecLoadedSweep == LoadSpecInit /\ [][LoadNext]_vars

(***************************************************************************)
(* Specification of tagging followed by a sweep of the same inventory: the *)
(* tagging agent runs to its end, then sweep_account runs against the tags *)
(* the account then holds.                                                 *)
(***************************************************************************)
TagSweepNext ==
    \/ (tag_s3_buckets
            /\ UNCHANGED <<extraVars, closureVars, classVars, sw_pc, sw_i, dry_run, profile_name, deletion_log,
                           sweep_order, tag_answer, delete_answer, journal>>)
    \/ (tag_cloudformation_stacks
            /\ UNCHANGED <<extraVars, closureVars, classVars, sw_pc, sw_i, dry_run, profile_name, deletion_log,
                           sweep_order, tag_answer, delete_answer, journal>>)
    \/ (TagFinish
            /\ UNCHANGED <<extraVars, closureVars, classVars, sw_pc, sw_i, dry_run, profile_name, deletion_log,
                           sweep_order, tag_answer, delete_answer, journal>>)
    \/ (SweepStart /\ UNCHANGED <<classVars, tagVars, closureVars, extraVars>>)
    \/ (delete_s3_buckets /\ UNCHANGED <<classVars, tagVars, closureVars, extraVars>>)
    \/ (delete_cloudformation_stacks /\ UNCHANGED <<classVars, tagVars, closureVars, extraVars>>)
    \/ (SweepFinish /\ UNCHANGED <<classVars, tagVars, closureVars, extraVars>>)

TagSweepInit == TagInit /\ ClassIdle /\ ClosureIdle /\ ExtraIdle

SpecTagSweep == TagSweepInit /\ [][TagSweepNext]_vars

(***************************************************************************)
(* Specification of an account closure: one run of either orchestrator,    *)
(* with the agents it launches, against an account whose calls answer as   *)
(* they like.                                                              *)
(***************************************************************************)
ClosureSpecInit == ClosureInit /\ ClassIdle /\ SweepIdle /\ TagIdle /\ ExtraIdle

ClosureNext ==
    \/ (\E a \in Agents : run_agent_start(a)) /\ UNCHANGED <<classVars, sweepVars, tagVars, extraVars>>
    \/ (\E a \in Agents : run_agent_returns(a)) /\ UNCHANGED <<classVars, sweepVars, tagVars, extraVars>>
    \/ (\E a \in Agents : run_agent_timeout(a)) /\ UNCHANGED <<classVars, sweepVars, tagVars, extraVars>>
    \/ destroy_s3_buckets /\ UNCHANGED <<classVars, sweepVars, tagVars, extraVars>>
    \/ storage_describe_regions /\ UNCHANGED <<classVars, sweepVars, tagVars, extraVars>>
    \/ destroy_ebs_volumes /\ UNCHANGED <<classVars, sweepVars, tagVars, extraVars>>
    \/ destroy_snapshots /\ UNCHANGED <<classVars, sweepVars, tagVars, extraVars>>
    \/ storage_save /\ UNCHANGED <<classVars, sweepVars, tagVars, extraVars>>
    \/ compute_describe_regions /\ UNCHANGED <<classVars, sweepVars, tagVars, extraVars>>
    \/ destroy_lambda_functions /\ UNCHANGED <<classVars, sweepVars, tagVars, extraVars>>
    \/ destroy_ec2_instances /\ UNCHANGED <<classVars, sweepVars, tagVars, extraVars>>
    \/ compute_save /\ UNCHANGED <<classVars, sweepVars, tagVars, extraVars>>
    \/ infra_describe_regions /\ UNCHANGED <<classVars, sweepVars, tagVars, extraVars>>
    \/ destroy_cloudformation_stacks /\ UNCHANGED <<classVars, sweepVars, tagVars, extraVars>>
    \/ infra_sleep /\ UNCHANGED <<classVars, sweepVars, tagVars, extraVars>>
    \/ destroy_nat_gateways /\ UNCHANGED <<classVars, sweepVars, tagVars, extraVars>>
    \/ destroy_internet_gateways /\ UNCHANGED <<classVars, sweepVars, tagVars, extraVars>>
    \/ destroy_security_groups /\ UNCHANGED <<classVars, sweepVars, tagVars, extraVars>>
    \/ destroy_vpcs /\ UNCHANGED <<classVars, sweepVars, tagVars, extraVars>>
    \/ infra_save /\ UNCHANGED <<classVars, sweepVars, tagVars, extraVars>>
    \/ executor_exit /\ UNCHANGED <<classVars, sweepVars, tagVars, extraVars>>
    \/ time_sleep /\ UNCHANGED <<classVars, sweepVars, tagVars, extraVars>>
    \/ closure_summary /\ UNCHANGED <<classVars, sweepVars, tagVars, sortVars, targetVars, poolVars, parseVars, moreVars>>
    \/ run_cli_nuke /\ UNCHANGED <<classVars, sweepVars, tagVars, extraVars>>
    \/ nuke_region /\ UNCHANGED <<classVars, sweepVars, tagVars, extraVars>>
    \/ run_cli_nuke_returns /\ UNCHANGED <<classVars, sweepVars, tagVars, sortVars, targetVars, poolVars, parseVars, moreVars>>
    \/ verify_account_empty /\ UNCHANGED <<classVars, sweepVars, tagVars, sortVars, targetVars, poolVars, parseVars, moreVars>>
    \/ save_orchestration_log /\ UNCHANGED <<classVars, sweepVars, tagVars, sortVars, targetVars, poolVars, parseVars, moreVars>>

SpecClosure == ClosureSpecInit /\ [][ClosureNext]_vars


(***************************************************************************)
(* Specification of the two sorts: a list of stacks, sorted by each agent. *)
(***************************************************************************)
SortSpecInit ==
    SortInit /\ ClassIdle /\ SweepIdle /\ TagIdle /\ ClosureIdle /\ TargetIdle /\ LateIdle

SortNext ==
    \/ SweeperSort /\ UNCHANGED <<classVars, sweepVars, tagVars, closureVars, targetVars, lateVars>>
    \/ InfraSort /\ UNCHANGED <<classVars, sweepVars, tagVars, closureVars, targetVars, lateVars>>

SpecStackOrder == SortSpecInit /\ [][SortNext]_vars

(***************************************************************************)
(* Specification of a run of TargetedS3BucketDestroyer.                    *)
(***************************************************************************)
TargetSpecInit ==
    TargetInit /\ ClassIdle /\ SweepIdle /\ TagIdle /\ ClosureIdle /\ SortIdle /\ LateIdle

TargetNext ==
    \/ destroy_target_buckets
         /\ UNCHANGED <<classVars, sweepVars, tagVars, closureVars, sortVars, lateVars>>
    \/ ProcessBucket /\ UNCHANGED <<classVars, sweepVars, tagVars, closureVars, sortVars, lateVars>>
    \/ TargetFinish /\ UNCHANGED <<classVars, sweepVars, tagVars, closureVars, sortVars, lateVars>>

SpecTargetBuckets == TargetSpecInit /\ [][TargetNext]_vars

(***************************************************************************)
(* Specification of two consecutive runs of the sweeper on one inventory.  *)
(***************************************************************************)
ResweepSpecInit == ResweepInit /\ ClassIdle /\ TagIdle /\ ClosureIdle /\ ExtraIdle

ResweepNext ==
    \/ (SweepStart /\ UNCHANGED <<classVars, tagVars, closureVars, extraVars>>)
    \/ (delete_lambda_functions /\ UNCHANGED <<classVars, tagVars, closureVars, extraVars>>)
    \/ (delete_s3_buckets /\ UNCHANGED <<classVars, tagVars, closureVars, extraVars>>)
    \/ (delete_cloudformation_stacks /\ UNCHANGED <<classVars, tagVars, closureVars, extraVars>>)
    \/ (SweepFinish /\ UNCHANGED <<classVars, tagVars, closureVars, extraVars>>)
    \/ (SweepAgain /\ UNCHANGED <<classVars, tagVars, closureVars, extraVars>>)

SpecResweep == ResweepSpecInit /\ [][ResweepNext]_vars

(***************************************************************************)
(* Specification of a sweep of an inventory of object stores.              *)
(***************************************************************************)
BucketSweepSpecInit ==
    BucketSweepInit /\ ClassIdle /\ TagIdle /\ ClosureIdle /\ ExtraIdle

BucketSweepNext ==
    \/ (SweepStart /\ UNCHANGED <<classVars, tagVars, closureVars, extraVars>>)
    \/ (delete_s3_buckets /\ UNCHANGED <<classVars, tagVars, closureVars, extraVars>>)
    \/ (SweepFinish /\ UNCHANGED <<classVars, tagVars, closureVars, extraVars>>)

SpecBucketSweep == BucketSweepSpecInit /\ [][BucketSweepNext]_vars

(***************************************************************************)
(* Claims on the classifier                                                *)
(***************************************************************************)
TypeReasons == {"IAM resource - preserve all", "Organizations resource",
                "Control Tower resource", "Company domain resource"}

\* C5: should_preserve_resource returns Preserve for every resource whose type
\* belongs to the always-preserved catalogue PRESERVE_RESOURCE_TYPES, whatever
\* the resource's name.
C5_CataloguePreserved ==
    (cl_pc = "done" /\ resource_type \in PRESERVE_RESOURCE_TYPES) => decision.preserve

\* C6 (as stated): for a resource whose type is in the always-preserved catalogue
\* and whose name also matches a preserved-name pattern, the decision is Preserve
\* with the protected-category reason, not the name-pattern reason.
C6_TypeReasonWins ==
    (/\ cl_pc = "done"
     /\ resource_type \in PRESERVE_RESOURCE_TYPES
     /\ MatchingPatterns(resource_name) # {})
        => (decision.preserve /\ decision.reason \in TypeReasons)

\* C6 (amended): for a resource whose type is in the always-preserved catalogue
\* and whose name also matches a preserved-name pattern, the decision is Preserve
\* with the reason of the first matching name pattern: the name patterns are
\* evaluated before the type catalogue.
C6_NameReasonWins ==
    (/\ cl_pc = "done"
     /\ resource_type \in PRESERVE_RESOURCE_TYPES
     /\ MatchingPatterns(resource_name) # {})
        => (/\ decision.preserve
            /\ decision.reason = PRESERVE_PATTERNS[FirstPattern(resource_name)].reason)

C6_Witness ==
    /\ cl_pc = "done"
    /\ resource_type = <<"AWS","IAM","Role">>
    /\ resource_name = "OrganizationAccountAccessRole"
    /\ decision = [preserve |-> TRUE, reason |-> "Organization management role"]

(***************************************************************************)
(* Claims on the sweeper                                                   *)
(***************************************************************************)
\* the calls of DestroyOps issued so far for a resource
DestroyCallsFor(item) ==
    {i \in 1..Len(calls) :
        /\ calls[i].op \in DestroyOps
        /\ calls[i].type = item.type /\ calls[i].id = item.id /\ calls[i].region = item.region}

Recorded(list, item) == \E i \in 1..Len(list) : list[i] = item

\* C1: in sweep_account, for every inventory resource whose fetched tags contain
\* decom:preserve=true, no emptying, protection-disabling, delete or terminate
\* call is issued, in dry-run or live mode, and the resource is recorded in
\* skipped_preserved.
C1_PreservedNeverDestroyed ==
    \A k \in 1..Len(tag_answer) :
        tag_answer[k] = "preserve" =>
            /\ DestroyCallsFor(sweep_order[k]) = {}
            /\ Recorded(deletion_log.skipped_preserved, sweep_order[k])
            /\ ~Recorded(deletion_log.successful, sweep_order[k])

\* a finished live sweep that kept a tagged resource and deleted another one
C1_Witness ==
    /\ sw_pc = "done" /\ ~dry_run
    /\ \E k \in 1..Len(tag_answer) :
          /\ tag_answer[k] = "preserve"
          /\ sweep_order[k].type = "s3_bucket"
          /\ Recorded(deletion_log.skipped_preserved, sweep_order[k])
    /\ \E k \in 1..Len(tag_answer) :
          /\ tag_answer[k] = "other"
          /\ DestroyCallsFor(sweep_order[k]) # {}
          /\ Recorded(deletion_log.successful, sweep_order[k])

\* C3: if the tag lookup for a resource raises an error (get_resource_tags' call,
\* or the lookup call it depends on), no delete call is issued for the resource
\* and it gets a preserved record, for every resource type the sweeper handles.
C3_LookupFailurePreserved ==
    \A k \in 1..Len(tag_answer) :
        tag_answer[k] \in {"error", "no_arn"} =>
            /\ DestroyCallsFor(sweep_order[k]) = {}
            /\ Recorded(deletion_log.skipped_preserved, sweep_order[k])
            /\ ~Recorded(deletion_log.failed, sweep_order[k])

\* the names of the model that match a pattern of PRESERVE_PATTERNS
PatternNamed == {n \in DOMAIN Text : MatchingPatterns(n) # {}}

\* C4: after the tagging agent and then the sweeper have run on the same
\* inventory, for every outcome of the tagging calls, the sweeper issues no
\* delete call for any stack or bucket whose name matches a preserved-name pattern.
C4_PatternNamedNeverDeleted ==
    \A i \in 1..Len(calls) :
        calls[i].op \in DestroyOps => calls[i].id \notin PatternNamed


(***************************************************************************)
(* Claims on the account closure                                           *)
(***************************************************************************)
\* a resource that must survive: it carries the preservation tag, or its name
\* marks it as owned by the landing zone or the organization
MustSurvive(c) == is_resource_preserved(c.id, c.tags) \/ c.id \in PatternNamed

\* C2: during a closure run no delete call is issued for a resource that must
\* survive (preservation tag, landing-zone or organization owned).
C2_SurvivorsNeverDeleted ==
    \A c \in ClosureCloud : MustSurvive(c) => attempt[c.id] = "pending"

TerminalProc == {"exit_0", "exit_1", "killed", "error"}

\* the infrastructure phase has started: the infrastructure agent has been
\* launched (or its launch has failed), resp. run_cli_nuke has been called
InfraPhaseStarted ==
    \/ proc["infrastructure"] # "none"
    \/ orchestrator = "complete" /\ orch_pc \in {"nuke", "verify", "save", "done"}

\* C7: in both orchestrators the infrastructure phase never starts before the
\* storage and the compute agent have returned (exited, been killed on
\* timeout, or failed to launch) and the barrier delay has elapsed.
C7_PhasesSequential ==
    InfraPhaseStarted =>
        /\ \A a \in {"storage", "compute"} :
               proc[a] \in TerminalProc /\ phases[a] # "none"
        /\ barrier_elapsed

\* the infrastructure phase of the complete orchestrator has started after one
\* agent timed out and the other exited with an error
C7_Witness ==
    /\ orchestrator = "complete" /\ InfraPhaseStarted
    /\ phases["storage"] = "timeout" /\ phases["compute"] = "failed"

\* C8: no delete call for an EBS volume or snapshot is issued before the delete
\* calls for all Lambda functions and EC2 instances have ended.
C8_ComputeBeforeBlockStorage ==
    (\E id \in IdsOfType("ebs_volume") \cup IdsOfType("ebs_snapshot") :
        attempt[id] # "pending")
        => \A id \in IdsOfType("lambda_function") \cup IdsOfType("ec2_instance") :
               attempt[id] # "pending"

\* C9: in every region no VPC delete call is issued before the delete calls for
\* all gateways and security groups of the region have ended, and no internet
\* gateway call before the NAT gateway calls.
C9_NetworkingSubOrder ==
    \A r \in Range(DescribedRegions) :
        /\ (\E v \in Ids("vpc", r) : attempt[v] # "pending")
              => \A g \in Ids("nat_gateway", r) \cup Ids("internet_gateway", r)
                               \cup Ids("security_group", r) : attempt[g] # "pending"
        /\ (\E g \in Ids("internet_gateway", r) : attempt[g] # "pending")
              => \A n \in Ids("nat_gateway", r) : attempt[n] # "pending"

NetworkingIds ==
    IdsOfType("nat_gateway") \cup IdsOfType("internet_gateway")
        \cup IdsOfType("security_group") \cup IdsOfType("vpc")

\* C10: in destroy_all_infrastructure no networking delete call is issued in
\* any region before destroy_cloudformation_stacks has run for every region
\* and the sleep between the two phases has returned.
C10_StacksBeforeNetworking ==
    (orchestrator = "account" /\ \E id \in NetworkingIds : attempt[id] # "pending")
        => /\ stacks_visited = Range(AllRegions(DescribedRegions))
           /\ infra_slept

\* networking calls have been issued in two regions after a stack call failed
\* to be issued in one of them
C10_Witness ==
    /\ orchestrator = "account"
    /\ attempt["nat-1"] # "pending" /\ attempt["vpc-2"] # "pending"
    /\ attempt["AWSControlTower-BP"] = "pending" /\ attempt["cdk-app"] = "destroyed"

(***************************************************************************)
(* Claims on the order of stacks                                           *)
(***************************************************************************)
\* the tier of a stack: 3 for a control-tower or landing-zone stack, 2 for a
\* "stackset-" stack, 1 for any other
StackTier(name) ==
    IF \/ Contains(<<"c","o","n","t","r","o","l","t","o","w","e","r">>, Lower(Text[name]))
       \/ Contains(<<"l","a","n","d","i","n","g","-","z","o","n","e">>, Lower(Text[name]))
    THEN 3
    ELSE IF StartsWith(Lower(Text[name]), <<"s","t","a","c","k","s","e","t","-">>) THEN 2
    ELSE 1

\* out lists the elements of in by ascending tier, each tier in its listed order
InThreeTiers(in, out) ==
    LET kin == [i \in 1..Len(in) |-> StackTier(in[i])]
    IN out = Tier(in, kin, 1) \o Tier(in, kin, 2) \o Tier(in, kin, 3)

\* C11: both agents attempt the stacks of a list in three tiers (other stacks,
\* "stackset-" stacks, control-tower/landing-zone stacks), each tier in its
\* listed order.
C11_ThreeTiers ==
    /\ "sweeper" \in so_done => InThreeTiers(so_stacks, so_sweeper)
    /\ "infrastructure" \in so_done => InThreeTiers(so_stacks, so_infra)

(***************************************************************************)
(* Claims on the order of a closure run across regions                     *)
(***************************************************************************)
\* C12: over a whole closure run, a delete attempt for a control-tower or
\* landing-zone stack is issued only when the delete attempts for every other
\* stack of the account have been made.
C12_ControlTowerStacksLast ==
    \A s \in IdsOfType("cloudformation_stack") :
        (StackTier(s) = 3 /\ attempt[s] # "pending")
        => \A t \in IdsOfType("cloudformation_stack") :
               StackTier(t) # 3 => attempt[t] # "pending"

\* C13: in a closure run, the first networking delete attempt is issued only
\* when every managed database instance of the account has a delete attempt
\* that reached a terminal state.
C13_DatabasesBeforeNetworking ==
    (\E n \in NetworkingIds : attempt[n] # "pending")
    => \A d \in IdsOfType("rds_instance") : attempt[d] \in {"destroyed", "failed"}

(***************************************************************************)
(* Claims on TargetedS3BucketDestroyer                                     *)
(***************************************************************************)
\* the calls issued for a bucket, in order
BucketCalls(bucket) == SelectSeq(tb_calls, LAMBDA c : c.bucket = bucket)

\* the answer of the existence pre-check of a processed bucket
HeadAnswer(bucket) == BucketCalls(bucket)[1].answer

\* the pre-check reports the bucket missing: the error code is that of a
\* missing bucket, 'NoSuchBucket' or the status code '404' of a HEAD request
ReportsMissing(e) == e.class = "ClientError" /\ e.code \in {"NoSuchBucket", "404"}

\* C14: a bucket that the existence pre-check reports missing gets a success
\* result marked already absent, and no call after the pre-check is issued
\* for it.
C14_MissingIsAlreadyAbsent ==
    \A i \in 1..Len(results.buckets_processed) :
        LET r == results.buckets_processed[i]
        IN ReportsMissing(HeadAnswer(r.bucket_name))
           => /\ r.status = "success"
              /\ r.error_message = "Bucket already deleted"
              /\ r.steps_completed = <<>>
              /\ Len(BucketCalls(r.bucket_name)) = 1

\* the classes of recognized terminal errors an answer belongs to
TerminalClasses(e) ==
    IF e.class # "ClientError" THEN {}
    ELSE (IF e.code = "AccessDenied" THEN {"access_denied"} ELSE {})
         \cup (IF e.scp THEN {"policy_restricted"} ELSE {})

\* the answers of the calls for a bucket that are recognized terminal errors
TerminalAnswers(bucket) ==
    SelectSeq(BucketCalls(bucket), LAMBDA c : TerminalClasses(c.answer) # {})

\* C15: when a call of destroy_bucket (pre-check, emptying, configuration
\* removal, delete) raises access denied or a policy restriction, the bucket's
\* result is failed with the error_type of that class, and delete_bucket is
\* issued at most once for the bucket.
C15_TerminalErrorClassified ==
    \A i \in 1..Len(results.buckets_processed) :
        LET r == results.buckets_processed[i]
            t == TerminalAnswers(r.bucket_name)
        IN /\ Len(SelectSeq(BucketCalls(r.bucket_name),
                            LAMBDA c : c.op = "delete_bucket")) <= 1
           /\ t # <<>> => /\ r.status = "failed"
                          /\ r.error_type \in TerminalClasses(t[1].answer)

(***************************************************************************)
(* Claims on retries, timeouts and repeated runs of the sweeper            *)
(***************************************************************************)
\* the delete_stack calls issued for a stack
DeleteStackCalls(item) ==
    {i \in 1..Len(calls) :
        /\ calls[i].op = "delete_stack"
        /\ calls[i].id = item.id /\ calls[i].region = item.region}

\* C16: when delete_stack raises a transient error for a stack, the call is
\* issued again (retried up to a ceiling) and the stack is not recorded as
\* failed after that single call.
C16_TransientDeleteRetried ==
    \A k \in 1..Len(delete_answer) :
        (/\ sweep_order[k].type = "cloudformation_stack"
         /\ delete_answer[k] = "transient"
         /\ DeleteStackCalls(sweep_order[k]) # {})
        => /\ Cardinality(DeleteStackCalls(sweep_order[k])) > 1
           /\ ~Recorded(deletion_log.failed, sweep_order[k])

\* C17: a stack whose deletion has not completed when the wait ends is not
\* recorded among the successful entries.
C17_TimedOutNotSuccessful ==
    \A k \in 1..Len(delete_answer) :
        delete_answer[k] = "wait_timeout"
        => ~Recorded(deletion_log.successful, sweep_order[k])

\* the resources the run before recorded as successful or skipped_preserved
Settled ==
    {journal.log.successful[i] : i \in 1..Len(journal.log.successful)}
    \cup {journal.log.skipped_preserved[i] : i \in 1..Len(journal.log.skipped_preserved)}

\* C18: in a second run on the same inventory, a resource that the first run
\* recorded as successful or skipped_preserved gets no new successful entry and
\* no delete call.
C18_SecondRunAddsNothing ==
    journal.runs = 1 =>
        \A item \in Settled :
            /\ ~Recorded(deletion_log.successful, item)
            /\ \A i \in DestroyCallsFor(item) : i <= journal.ncalls

(***************************************************************************)
(* Claims on the dry-run mode of the sweeper                               *)
(***************************************************************************)
\* C19: with the dry-run flag set, sweep_account issues no delete, terminate,
\* delete_objects or protection-disabling call, for every inventory and every
\* tag-lookup outcome, and every resource whose fetched tags do not preserve
\* it is recorded in successful.
C19_DryRunIssuesNoDelete ==
    dry_run =>
        /\ \A i \in 1..Len(calls) : calls[i].op \notin DestroyOps
        /\ \A k \in 1..Len(tag_answer) :
              tag_answer[k] = "other" =>
                  /\ Recorded(deletion_log.successful, sweep_order[k])
                  /\ ~Recorded(deletion_log.failed, sweep_order[k])

\* a finished dry run that made its lookups, recorded a simulated deletion of
\* a stack and preserved another resource
C19_Witness ==
    /\ dry_run /\ sw_pc = "done"
    /\ Len(calls) > 0
    /\ \E k \in 1..Len(tag_answer) :
          /\ tag_answer[k] = "other"
          /\ sweep_order[k].type = "cloudformation_stack"
          /\ Recorded(deletion_log.successful, sweep_order[k])
    /\ \E k \in 1..Len(tag_answer) : tag_answer[k] = "preserve"

\* the resources a log records, in any of its lists
LogItems(log) ==
    {log.successful[i] : i \in 1..Len(log.successful)}
    \cup {log.failed[i] : i \in 1..Len(log.failed)}
    \cup {log.skipped_preserved[i] : i \in 1..Len(log.skipped_preserved)}

\* the phase of a recorded resource: step 1 (compute), 2 (buckets), 3 (stacks)
PhaseOf(item) ==
    IF item.type = "s3_bucket" THEN 2
    ELSE IF item.type = "cloudformation_stack" THEN 3
    ELSE 1

\* the entries of a list are in the order of the phases
InPhaseOrder(list) ==
    \A i, j \in 1..Len(list) : i < j => PhaseOf(list[i]) <= PhaseOf(list[j])

\* two journals have the same shape: the same resources are recorded, the same
\* ones as preserved, and the lists of both follow the phases
SameShape(a, b) ==
    /\ LogItems(a) = LogItems(b)
    /\ a.skipped_preserved = b.skipped_preserved
    /\ \A l \in {a.successful, a.failed, b.successful, b.failed} : InPhaseOrder(l)

\* how many lookups were answered in the given way
CountOf(answers, kind) == Cardinality({k \in 1..Len(answers) : answers[k] = kind})

\* a live run has ended after a dry run on the same inventory, with the same
\* answers to the lookups
LiveAfterDry ==
    /\ journal.runs = 1 /\ journal.dry_run /\ ~dry_run
    /\ sw_pc \in {"done", "skipped"}
    /\ sw_pc = "done" => tag_answer = journal.tags

\* the journal of the dry run has the shape of the journal of the live run, and
\* every resource the dry run classified Delete has a success entry
DryShapedAsLive ==
    /\ SameShape(journal.log, deletion_log)
    /\ Len(journal.log.successful) = CountOf(journal.tags, "other")

SkippedUpFront ==
    /\ sw_pc = "skipped"
    /\ deletion_log.skip_reason = "Service Control Policies"
    /\ calls = <<>>
    /\ deletion_log.successful = <<>> /\ deletion_log.failed = <<>>
    /\ deletion_log.skipped_preserved = <<>>

TimesRecorded(log, item) ==
    Cardinality({i \in 1..Len(log.successful) : log.successful[i] = item})
    + Cardinality({i \in 1..Len(log.failed) : log.failed[i] = item})
    + Cardinality({i \in 1..Len(log.skipped_preserved) : log.skipped_preserved[i] = item})

\* every store looked up so far answered with its tags, and no delete call raised
TaggedOrDeleted ==
    /\ \A k \in 1..Len(tag_answer) : tag_answer[k] \in {"preserve", "other"}
    /\ \A k \in 1..Len(delete_answer) : delete_answer[k] \in {"none", "ok"}

AccountSpecInit == ClosureSpecInit /\ orchestrator = "account"

\* the steps of the orchestrator itself
OrchestratorStep ==
    \/ (\E a \in Agents : run_agent_start(a)) /\ UNCHANGED <<classVars, sweepVars, tagVars, extraVars>>
    \/ (\E a \in Agents : run_agent_returns(a)) /\ UNCHANGED <<classVars, sweepVars, tagVars, extraVars>>
    \/ (\E a \in Agents : run_agent_timeout(a)) /\ UNCHANGED <<classVars, sweepVars, tagVars, extraVars>>
    \/ time_sleep /\ UNCHANGED <<classVars, sweepVars, tagVars, extraVars>>
    \/ closure_summary /\ UNCHANGED <<classVars, sweepVars, tagVars, sortVars, targetVars, poolVars, parseVars, moreVars>>

\* a child process as subprocess.run sees it: it runs until it exits with a
\* return code (what it deletes meanwhile is left out here)
child_exits(a) ==
    /\ proc[a] = "running"
    /\ \E status \in {"exit_0", "exit_1"} : proc' = [proc EXCEPT ![a] = status]
    /\ storage_pc' = IF a = "storage" THEN "end" ELSE storage_pc
    /\ compute_pc' = IF a = "compute" THEN "end" ELSE compute_pc
    /\ infra_pc' = IF a = "infrastructure" THEN "end" ELSE infra_pc
    /\ UNCHANGED <<orchVars, attempt, storage_tasks, compute_r, infra_r, infra_slept,
                   stacks_visited>>

ChildStep ==
    (\E a \in Agents : child_exits(a)) /\ UNCHANGED <<classVars, sweepVars, tagVars, extraVars>>

AccountNext == OrchestratorStep \/ ChildStep

SpecAccountClosure ==
    AccountSpecInit /\ [][AccountNext]_vars /\ WF_vars(OrchestratorStep)

(***************************************************************************)
(* Specification of the counts of a closure: three agents that run to      *)
(* their end with any outcome per resource, their output parsed by         *)
(* run_agent, and the totals of orchestrate_account_closure.               *)
(***************************************************************************)
ParseSpecInit ==
    /\ ParseInit /\ ClassIdle /\ SweepIdle /\ TagIdle /\ ClosureIdle /\ SortIdle /\ TargetIdle
    /\ PoolIdle /\ VerifyIdle /\ MoreIdle

ParseNext ==
    \/ run_agent_parse
         /\ UNCHANGED <<classVars, sweepVars, tagVars, closureVars, sortVars, targetVars,
                        poolVars, verifyVars, moreVars>>
    \/ closure_totals_sum
         /\ UNCHANGED <<classVars, sweepVars, tagVars, closureVars, sortVars, targetVars,
                        poolVars, verifyVars, moreVars>>

SpecClosureCounts == ParseSpecInit /\ [][ParseNext]_vars

(***************************************************************************)
(* Specification of the storage agent's thread pool: the volume and        *)
(* snapshot tasks of two regions, interleaved step by step.                *)
(***************************************************************************)
PoolSpecInit ==
    /\ PoolInit /\ ClassIdle /\ SweepIdle /\ TagIdle /\ ClosureIdle /\ SortIdle /\ TargetIdle
    /\ VerifyIdle /\ ParseIdle /\ MoreIdle

PoolNext ==
    \/ submit_tasks /\ UNCHANGED <<classVars, sweepVars, tagVars, closureVars, sortVars, targetVars, verifyVars, parseVars, moreVars>>
    \/ (\E t \in PoolTasks : task_describe(t))
         /\ UNCHANGED <<classVars, sweepVars, tagVars, closureVars, sortVars, targetVars, verifyVars, parseVars, moreVars>>
    \/ (\E t \in PoolTasks : task_delete(t))
         /\ UNCHANGED <<classVars, sweepVars, tagVars, closureVars, sortVars, targetVars, verifyVars, parseVars, moreVars>>
    \/ (\E t \in PoolTasks : task_append(t))
         /\ UNCHANGED <<classVars, sweepVars, tagVars, closureVars, sortVars, targetVars, verifyVars, parseVars, moreVars>>
    \/ (\E t \in PoolTasks : task_count_read(t))
         /\ UNCHANGED <<classVars, sweepVars, tagVars, closureVars, sortVars, targetVars, verifyVars, parseVars, moreVars>>
    \/ (\E t \in PoolTasks : task_count_write(t))
         /\ UNCHANGED <<classVars, sweepVars, tagVars, closureVars, sortVars, targetVars, verifyVars, parseVars, moreVars>>
    \/ pool_save /\ UNCHANGED <<classVars, sweepVars, tagVars, closureVars, sortVars, targetVars, verifyVars, parseVars, moreVars>>

SpecStoragePool == PoolSpecInit /\ [][PoolNext]_vars

(***************************************************************************)
(* Claims on the destruction logs of the closure agents.                   *)
(***************************************************************************)

\* the resources that share type and region with c
Siblings(c) ==
    {d \in ClosureCloud : d.type = c.type /\ d.region = c.region /\ d.id # c.id}

\* the delete call issued for the resource raised
DeleteRaised(id) == attempt[id] \in {"failed", "unrecorded"}

\* the resource had a delete call of its own whose outcome is in the log
OwnRecordedOutcome(id) == attempt[id] \in {"destroyed", "failed"}

\* C23: when the delete of one resource fails, every other resource of the
\* same type and region still gets its own delete attempt and its own
\* recorded outcome
C23_FailureLeavesSiblingsAttempted ==
    \A c \in ClosureCloud :
        DeleteRaised(c.id) => \A d \in Siblings(c) : OwnRecordedOutcome(d.id)

\* C24: every resource for which destruction was attempted is in the
\* destroyed list or in the failed list
C24_AttemptedIsRecorded ==
    \A id \in CloudIds : attempt[id] # "pending" => attempt[id] \in {"destroyed", "failed"}

(***************************************************************************)
(* Claims on a sweep whose inventory file is damaged.                      *)
(***************************************************************************)

\* the calls issued so far that change the account
DestructiveCalls == {i \in 1..Len(calls) : calls[i].op \in DestroyOps}

\* C25: whenever a sweep stops because the inventory cannot be read or lacks
\* an expected field, no delete or terminate call has been issued
C25_InventoryErrorBeforeAnyDelete ==
    sw_pc = "error" => DestructiveCalls = {}

(***************************************************************************)
(* Claims on the thread pool of the storage agent.                         *)
(***************************************************************************)

\* the function submitted as task t has been called and has returned
TaskReturned(t) == sp_task[t].listed # "none" /\ sp_task[t].pc = "end"

\* C26: destroy_all_storage sets end_time and saves its results only after
\* every submitted volume and snapshot task has finished, whatever was raised
\* inside any of them
C26_AllTasksAwaited ==
    (sp_log.end_time \/ sp_log.saved) => \A t \in PoolTasks : TaskReturned(t)

\* the log is saved after one task's describe call and another task's delete
\* call have raised, and the remaining tasks have deleted their resources
C26_Witness ==
    /\ sp_pc = "done" /\ sp_log.saved
    /\ \E t \in PoolTasks : sp_task[t].listed = "raised"
    /\ Len(sp_log.failed) = 1
    /\ Len(sp_log.destroyed) = 2

\* the number of entries of a list of the log that have the given type
EntriesOfType(list, type) == Cardinality({i \in 1..Len(list) : list[i].type = type})

\* the ids of the entries of a list of the log
EntryIds(list) == {list[i].id : i \in 1..Len(list)}

\* every resource whose delete call was issued has an entry
NoEntryLost ==
    \A t \in PoolTasks :
        sp_task[t].listed = "listed" =>
            \A k \in 1..Len(TaskResources(t)) :
                TaskResources(t)[k] \in EntryIds(sp_log.destroyed) \cup EntryIds(sp_log.failed)

\* the summary counters tell the numbers of entries
CountersMatchLists ==
    /\ sp_log.summary.ebs_volumes = EntriesOfType(sp_log.destroyed, "ebs_volume")
    /\ sp_log.summary.snapshots = EntriesOfType(sp_log.destroyed, "ebs_snapshot")
    /\ sp_log.summary.failed = Len(sp_log.failed)

\* C27: under every interleaving of the worker threads, once the pool has
\* completed, the counters 'ebs_volumes', 'snapshots' and 'failed' equal the
\* numbers of entries in the destroyed and failed lists, and no appended
\* entry is lost
C27_JournalWritesSafe ==
    sp_pc = "done" => (CountersMatchLists /\ NoEntryLost)

(***************************************************************************)
(* Claims on the states of ClosureOrchestrator.run_comprehensive_nuke.     *)
(***************************************************************************)

\* the positions of run_comprehensive_nuke in the order of its statements
NukePositions == <<"phase1", "sleep", "cli_nuke", "nuke", "verify", "save", "done">>

PositionOf(pc) == CHOOSE k \in 1..Len(NukePositions) : NukePositions[k] = pc

\* the state of the run at a position: the two agents of phase 1, the pause,
\* run_cli_nuke, verify_account_empty, and the end with its saved log
RunStates == <<"Executing1", "Barrier", "Executing2", "Executing2", "Verifying", "Done", "Done">>

RunStateOf(pc) == RunStates[PositionOf(pc)]

\* the state that follows a state of the run
Successor ==
    [Executing1 |-> "Barrier", Barrier |-> "Executing2", Executing2 |-> "Verifying",
     Verifying |-> "Done", Done |-> "Done"]

\* every destruction phase has finished: both agents of phase 1 have a
\* recorded status, no agent process is running, no nuke_region is pending
PhasesFinished ==
    /\ \A a \in {"storage", "compute"} : phases[a] # "none" /\ proc[a] # "running"
    /\ nuke_pending = {}

\* each step of the orchestrator moves forward in the statement order and
\* either stays in its state or enters the successor state
ForwardStep ==
    (orchestrator = "complete" /\ orch_pc' # orch_pc) =>
        /\ PositionOf(orch_pc') > PositionOf(orch_pc)
        /\ RunStateOf(orch_pc') \in {RunStateOf(orch_pc), Successor[RunStateOf(orch_pc)]}

\* C28: the run follows Executing(phase 1) -> Barrier -> Executing(phase 2) ->
\* Verifying -> Done, each state entered at most once and no barrier after
\* the final phase; verification starts only after every destruction phase
\* has finished, and the log is saved only after verification
C28_RunStateOrder ==
    [][/\ ForwardStep
       /\ (orchestrator = "complete" /\ orch_pc' \in {"verify", "save", "done"})
              => PhasesFinished'
       /\ log_saved' => verification'.status # "none"
       /\ barrier_elapsed' # barrier_elapsed => RunStateOf(orch_pc) = "Barrier"]_vars

\* the run has gone through all its states
C28_Witness ==
    /\ orchestrator = "complete" /\ orch_pc = "done"
    /\ barrier_elapsed /\ log_saved
    /\ \E c \in ClosureCloud : c.type = "vpc" /\ attempt[c.id] # "pending"

\* C29: whatever the re-queries of verify_account_empty answer, a residue, a
\* failure or a text that is not a number, the run is not aborted: it goes on
\* to save_orchestration_log and ends with the log saved
C29_VerificationNeverAborts ==
    (orchestrator = "complete" /\ verification.status # "none") =>
        /\ orch_pc \in {"save", "done"}
        /\ orch_pc = "done" => log_saved

\* the log is saved after a verification that found buckets and instances left
C29_Witness ==
    /\ orch_pc = "done" /\ log_saved
    /\ verification.status = "recorded"
    /\ verification.s3_buckets > 0 /\ verification.ec2_instances > 0

\* the log is saved after a verification whose except clause was reached
C29_WitnessError == orch_pc = "done" /\ log_saved /\ verification.status = "error"

(***************************************************************************)
(* Claims on the termination of orchestrate_account_closure.               *)
(***************************************************************************)

\* run_agent has been called for the agents in the order storage, compute,
\* infrastructure, each after the call before it has returned
LaunchedInOrder ==
    /\ proc["compute"] # "none" => phases["storage"] # "none"
    /\ proc["infrastructure"] # "none" => phases["compute"] # "none"

\* orchestrate_account_closure has returned: run_agent was called for every
\* agent, the closure log is written and carries a final status, which is
\* not 'completed' when a phase timed out
AccountClosureReturned ==
    /\ orch_pc = "done"
    /\ \A a \in Agents : phases[a] # "none"
    /\ closure_log.saved
    /\ closure_log.completion_status \in {"completed", "partial"}
    /\ (\E a \in Agents : phases[a] = "timeout") => closure_log.completion_status = "partial"

\* C30: for every combination of agent outcomes (success, non-zero exit,
\* timeout, launch error) orchestrate_account_closure launches the three
\* agents in order, eventually returns and produces the closure log with a
\* final completion status; a phase that exceeds its timeout counts as
\* incomplete and is not waited for indefinitely
C30_AccountClosureCompletes == []LaunchedInOrder /\ <>AccountClosureReturned

\* the run has returned after a timeout, a launch error and a non-zero exit
C30_Witness ==
    /\ AccountClosureReturned
    /\ phases["storage"] = "timeout"
    /\ phases["compute"] = "error"
    /\ phases["infrastructure"] = "failed"

(***************************************************************************)
(* Claims on the counts of a closure.                                      *)
(***************************************************************************)

\* the numbers of entries the three agents recorded
RecordedDestroyed == SumOver([a \in Agents |-> Len(destruction_logs[a].destroyed)], Agents)

RecordedFailed == SumOver([a \in Agents |-> Len(destruction_logs[a].failed)], Agents)

\* C31: the total_resources_destroyed and total_failures reported by
\* orchestrate_account_closure equal the numbers of resources the three
\* agents recorded as destroyed and as failed, whatever names and error
\* texts the output holds
C31_TotalsAggregateJournal ==
    pa_pc = Len(ParseAgents) + 2 =>
        /\ closure_totals.total_resources_destroyed = RecordedDestroyed
        /\ closure_totals.total_failures = RecordedFailed

(***************************************************************************)
(* Claims on the summary of TargetedS3BucketDestroyer.                     *)
(***************************************************************************)

\* the number of processed entries whose error_type is one of types
ProcessedOfType(types) ==
    Cardinality({i \in 1..Len(results.buckets_processed) :
                    results.buckets_processed[i].error_type \in types})

\* C32: after destroy_target_buckets, successful_deletions +
\* failed_deletions = total_attempted = the number of processed entries, and
\* each error counter equals the number of processed entries carrying its
\* error_type (other_errors counts 'other_error' and 'unexpected_error')
C32_SummaryProjectsJournal ==
    tb_pc = "done" =>
        /\ results.summary.successful_deletions + results.summary.failed_deletions
               = results.summary.total_attempted
        /\ results.summary.total_attempted = Len(results.buckets_processed)
        /\ results.summary.access_denied_errors = ProcessedOfType({"access_denied"})
        /\ results.summary.policy_restricted_errors
               = ProcessedOfType({"policy_restricted"})
        /\ results.summary.other_errors
               = ProcessedOfType({"other_error", "unexpected_error"})

(***************************************************************************)
(* Specification of the internet gateways of destroy_networking.           *)
(***************************************************************************)
baseVars ==
    <<classVars, sweepVars, tagVars, closureVars, sortVars, targetVars,
      poolVars, verifyVars, parseVars>>

BaseIdle ==
    /\ ClassIdle /\ SweepIdle /\ TagIdle /\ ClosureIdle /\ SortIdle /\ TargetIdle
    /\ PoolIdle /\ VerifyIdle /\ ParseIdle

GatewaySpecInit == GatewayInit /\ BaseIdle /\ EvalIdle /\ PhaseOneIdle /\ RetagIdle

GatewayNext ==
    \/ describe_internet_gateways /\ UNCHANGED <<baseVars, evalVars, phase1Vars, retagVars>>
    \/ ProcessGateway /\ UNCHANGED <<baseVars, evalVars, phase1Vars, retagVars>>
    \/ GatewaysDone /\ UNCHANGED <<baseVars, evalVars, phase1Vars, retagVars>>

SpecGateways == GatewaySpecInit /\ [][GatewayNext]_vars

(***************************************************************************)
(* Claims on the sub-steps that clear what blocks a delete.                *)
(***************************************************************************)

\* the calls issued for a gateway, in order
GatewayCalls(id) == SelectSeq(gw_calls, LAMBDA c : c.id = id)

\* a detach call for the gateway answered that nothing is attached
DetachFoundNothing(id) ==
    \E i \in 1..Len(GatewayCalls(id)) :
        /\ GatewayCalls(id)[i].op = "detach_internet_gateway"
        /\ GatewayCalls(id)[i].answer = NotAttached

\* the answers of the delete calls issued for the gateway
DeleteAnswers(id) ==
    {GatewayCalls(id)[i].answer :
        i \in {j \in 1..Len(GatewayCalls(id)) :
                  GatewayCalls(id)[j].op = "delete_internet_gateway"}}

InSeq(x, seq) == \E i \in 1..Len(seq) : seq[i] = x

\* C33: a 'not found' error raised while detaching an attachment never fails
\* the unit: the delete call is still issued and the outcome is decided by
\* the delete call alone
C33_SubStepsBestEffort ==
    \A k \in 1..Len(igws) :
        (k < gw_i /\ DetachFoundNothing(igws[k].id))
            => /\ DeleteAnswers(igws[k].id) # {}
               /\ InSeq(igws[k].id, gw_log.destroyed)
                      <=> DeleteAnswers(igws[k].id) = {Ok}

(***************************************************************************)
(* Specification of the repeated classification: any name, type and tag    *)
(* list, each classifier called up to MaxEvaluations times.                *)
(***************************************************************************)
EvalInit ==
    /\ ev_pc = "input"
    /\ ev_name \in ClassifyNames
    /\ ev_type \in ClassifyTypes
    /\ ev_tags \in TagSets
    /\ ev_decisions = <<>> /\ ev_preserved = <<>>

EvalSpecInit == EvalInit /\ BaseIdle /\ GatewayIdle /\ PhaseOneIdle /\ RetagIdle

EvalNext ==
    \/ call_should_preserve_resource /\ UNCHANGED <<baseVars, gwVars, phase1Vars, retagVars>>
    \/ call_is_resource_preserved /\ UNCHANGED <<baseVars, gwVars, phase1Vars, retagVars>>

SpecReclassify == EvalSpecInit /\ [][EvalNext]_vars

(***************************************************************************)
(* Claims on the classifiers as functions.                                 *)
(***************************************************************************)

\* the tuples should_preserve_resource returns: (True, reason) with one of
\* the reasons of the catalogue, or (False, '')
Decisions ==
    {[preserve |-> TRUE, reason |-> PRESERVE_PATTERNS[i].reason] :
        i \in 1..Len(PRESERVE_PATTERNS)}
    \cup {[preserve |-> TRUE, reason |-> r] :
            r \in {"IAM resource - preserve all", "Organizations resource",
                   "Control Tower resource", "Company domain resource"}}
    \cup {[preserve |-> FALSE, reason |-> ""]}

\* every call made has returned a decision
EveryCallDecides ==
    /\ \A i \in 1..Len(ev_decisions) : ev_decisions[i] \in Decisions
    /\ \A i \in 1..Len(ev_preserved) : ev_preserved[i] \in BOOLEAN

\* the calls on the same input returned the same outcome and reason
SameOnSameInput ==
    /\ \A i, j \in 1..Len(ev_decisions) : ev_decisions[i] = ev_decisions[j]
    /\ \A i, j \in 1..Len(ev_preserved) : ev_preserved[i] = ev_preserved[j]

\* a call leaves the state of the tagging agent and of the sweeper as it was
CallChangesNothing ==
    (ev_decisions' # ev_decisions \/ ev_preserved' # ev_preserved)
        => UNCHANGED <<tagVars, sweepVars, ev_name, ev_type, ev_tags>>

InventoryItems(type, key) ==
    UNION {{[type |-> type, id |-> Listed(inventory, inventory.regions[r], key)[i],
             region |-> inventory.regions[r]] :
                i \in 1..Len(Listed(inventory, inventory.regions[r], key))} :
           r \in 1..Len(inventory.regions)}

InventoryCompute ==
    InventoryItems("lambda_function", "lambda_functions")
    \cup InventoryItems("ec2_instance", "ec2_instances")
    \cup InventoryItems("rds_instance", "rds_instances")

\* the buckets delete_s3_buckets reads: those listed under us-east-1
InventoryBuckets ==
    {b \in InventoryItems("s3_bucket", "s3_buckets") : b.region = "us-east-1"}

\* a call has been issued for the resource
SweepAttempted(item) ==
    \E i \in 1..Len(calls) :
        calls[i].type = item.type /\ calls[i].id = item.id /\ calls[i].region = item.region

TypeAttempted(type) == \E i \in 1..Len(calls) : calls[i].type = type

\* C35: in sweep_account no S3 bucket attempt is made before the Lambda, EC2
\* and RDS attempts of all inventory regions are done, and no stack attempt is
\* made in any region before all S3 bucket attempts are done
C35_SweepDependencyOrder ==
    /\ TypeAttempted("s3_bucket") => \A c \in InventoryCompute : SweepAttempted(c)
    /\ TypeAttempted("cloudformation_stack")
           => \A b \in InventoryBuckets \cup InventoryCompute : SweepAttempted(b)

\* a live run has reached the stacks of an inventory with compute resources in
\* two regions and a bucket
C35_Witness ==
    /\ ~dry_run /\ sw_pc = "done"
    /\ TypeAttempted("cloudformation_stack")
    /\ InventoryBuckets # {}
    /\ \E c \in InventoryCompute : c.region = "eu-west-1"

(***************************************************************************)
(* Specification of phase 1 of run_comprehensive_nuke.                     *)
(***************************************************************************)
PhaseOneSpecInit == PhaseOneInit /\ BaseIdle /\ GatewayIdle /\ EvalIdle /\ RetagIdle

PhaseOneNext ==
    \/ submit_agents /\ UNCHANGED <<baseVars, gwVars, evalVars, retagVars>>
    \/ (\E a \in PhaseOneAgents : agent_result(a)) /\ UNCHANGED <<baseVars, gwVars, evalVars, retagVars>>
    \/ (\E a \in PhaseOneAgents : phase_write(a)) /\ UNCHANGED <<baseVars, gwVars, evalVars, retagVars>>
    \/ (\E a \in PhaseOneAgents : counter_read(a)) /\ UNCHANGED <<baseVars, gwVars, evalVars, retagVars>>
    \/ (\E a \in PhaseOneAgents : counter_write(a)) /\ UNCHANGED <<baseVars, gwVars, evalVars, retagVars>>
    \/ pool_exit /\ UNCHANGED <<baseVars, gwVars, evalVars, retagVars>>

SpecPhaseOne == PhaseOneSpecInit /\ [][PhaseOneNext]_vars

(***************************************************************************)
(* Claims on the orchestration log of phase 1.                             *)
(***************************************************************************)

\* the phases map holds one entry per agent, with the status of its own call
OwnStatusRecorded ==
    \A a \in PhaseOneAgents : p1_log.phases[PhaseName[a]] = p1_thread[a].status

\* C36: under every interleaving of the two agent threads of phase 1, once
\* both have returned phases_completed + phases_failed equals the number of
\* run_agent calls made (2) and the phases map holds one entry per agent with
\* that agent's own status
C36_PhaseCountersComplete ==
    p1_pc = "joined" =>
        /\ p1_log.summary.phases_completed + p1_log.summary.phases_failed
               = Cardinality(PhaseOneAgents)
        /\ OwnStatusRecorded

(***************************************************************************)
(* Claims on the completion status of orchestrate_account_closure.         *)
(***************************************************************************)

\* orchestrate_account_closure has returned
ClosureReturned == orchestrator = "account" /\ orch_pc = "done"

AllPhasesSucceeded == \A a \in Agents : phases[a] = "success"

\* C37: when orchestrate_account_closure returns, completion_status is
\* 'completed' if and only if all three phases (storage, compute,
\* infrastructure) have status 'success', and 'partial' otherwise; it is never
\* left 'in_progress'
C37_CompletionStatusFinal ==
    ClosureReturned =>
        /\ closure_log.completion_status = "completed" <=> AllPhasesSucceeded
        /\ closure_log.completion_status = "partial" <=> ~AllPhasesSucceeded
        /\ closure_log.completion_status # "in_progress"

\* the closure has returned 'partial' with two phases out of three successful
C37_Witness ==
    /\ ClosureReturned
    /\ closure_log.completion_status = "partial"
    /\ phases["storage"] = "success" /\ phases["compute"] = "success"
    /\ phases["infrastructure"] = "failed"

(***************************************************************************)
(* Claims on the steps of TargetedS3BucketDestroyer.destroy_bucket.        *)
(***************************************************************************)

\* the steps of destroy_bucket, in order
BucketSteps ==
    <<"bucket_exists_check", "empty_contents", "remove_configurations", "delete_bucket">>

IsPrefix(short, long) ==
    Len(short) <= Len(long) /\ \A i \in 1..Len(short) : short[i] = long[i]

\* the answers of the delete_bucket calls issued for a bucket
DeleteBucketAnswers(bucket) ==
    {BucketCalls(bucket)[i].answer :
        i \in {j \in 1..Len(BucketCalls(bucket)) :
                  BucketCalls(bucket)[j].op = "delete_bucket"}}

\* C38: the recorded steps_completed is always a prefix of
\* [bucket_exists_check, empty_contents, remove_configurations, delete_bucket];
\* the delete call is issued only after the existence check passed and
\* emptying returned success, and status is 'success' exactly when the delete
\* call succeeded or the pre-check found the bucket absent
C38_StepsArePrefix ==
    \A i \in 1..Len(results.buckets_processed) :
        LET r == results.buckets_processed[i]
        IN /\ IsPrefix(r.steps_completed, BucketSteps)
           /\ DeleteBucketAnswers(r.bucket_name) # {}
                  => /\ HeadAnswer(r.bucket_name) = Ok
                     /\ Len(r.steps_completed) >= 2
           /\ r.status = "success"
                  <=> \/ DeleteBucketAnswers(r.bucket_name) = {Ok}
                      \/ ReportsMissing(HeadAnswer(r.bucket_name))

(***************************************************************************)
(* Specification of two runs of the tagging agent on the same inventory.   *)
(***************************************************************************)
RetagInit ==
    /\ tg_pc = "run" /\ tg_i = 1 /\ tagging_results = NoResults
    /\ cloud_tags \in [{"aws-controltower-logs", "AWSControlTower-BP", "cdk-app"}
                          -> InitialTags]
    /\ sw_pc = "idle" /\ sw_i = 1 /\ dry_run = TRUE /\ profile_name = ""
    /\ inventory = TagInventory
    /\ deletion_log = EmptyLog /\ sweep_order = <<>> /\ calls = <<>> /\ tag_answer = <<>>
    /\ delete_answer = <<>> /\ journal = NoJournal
    /\ rt_run = 1 /\ rt_first = NoFirstRun

RetagSpecInit ==
    /\ RetagInit /\ ClassIdle /\ ClosureIdle /\ SortIdle /\ TargetIdle
    /\ PoolIdle /\ VerifyIdle /\ ParseIdle /\ GatewayIdle /\ EvalIdle /\ PhaseOneIdle

\* what a step of the tagging agent leaves alone
retagFrame ==
    <<classVars, closureVars, sortVars, targetVars, poolVars, verifyVars, parseVars,
      gwVars, evalVars, phase1Vars, sw_pc, sw_i, dry_run, profile_name, deletion_log,
      sweep_order, tag_answer, delete_answer, journal>>

RetagNext ==
    \/ tag_s3_buckets /\ UNCHANGED <<retagFrame, retagVars>>
    \/ tag_cloudformation_stacks /\ UNCHANGED <<retagFrame, retagVars>>
    \/ TagFinish /\ UNCHANGED <<retagFrame, retagVars>>
    \/ TagAgain /\ UNCHANGED <<retagFrame, calls, inventory>>

SpecRetag == RetagSpecInit /\ [][RetagNext]_vars

(***************************************************************************)
(* Claims on a second run of the tagging agent.                            *)
(***************************************************************************)

\* the buckets and stacks of the inventory that should_preserve_resource
\* preserves
PreservedIds ==
    {TagOrder(inventory)[i].id :
        i \in {j \in 1..Len(TagOrder(inventory)) :
                  NameDecision[TagOrder(inventory)[j].id].preserve}}

\* the number of entries of a tag list with the key
EntriesWithKey(tags, key) == Cardinality({i \in 1..Len(tags) : tags[i].Key = key})

\* run 1 tagged every preserved resource and recorded no failure
FirstRunTaggedAll ==
    /\ rt_first.results.resources_failed = 0
    /\ \A id \in PreservedIds :
          /\ EntriesWithKey(rt_first.tags[id], PRESERVE_TAG_KEY) = 1
          /\ EntriesWithKey(rt_first.tags[id], PRESERVE_REASON_KEY) = 1

SecondRunEnded == rt_run = 2 /\ tg_pc = "done"

\* C39: running tag_s3_buckets (or tag_cloudformation_stacks) twice on the
\* same inventory leaves each preserved resource with the same tag set as
\* after the first run, with exactly one decom:preserve entry and one
\* decom:reason entry, and the second run records no new failure
C39_TaggingIdempotent ==
    (SecondRunEnded /\ FirstRunTaggedAll) =>
        /\ \A id \in PreservedIds :
              /\ cloud_tags[id] = rt_first.tags[id]
              /\ EntriesWithKey(cloud_tags[id], PRESERVE_TAG_KEY) = 1
              /\ EntriesWithKey(cloud_tags[id], PRESERVE_REASON_KEY) = 1
        /\ tagging_results.resources_failed = 0

=============================================================================
